---- MODULE Spec2Model ----
(***************************************************************************)
(* Decision-tree training and inference engine of                          *)
(* src/modules/recursive_partitioning/DT_impl.hpp: the heap-indexed tree   *)
(* store, the statistics accumulator (primary and surrogate passes, shard  *)
(* merge), expand, pickSurrogates and search.                              *)
(*                                                                         *)
(* Arrays are 0-based in the source and 1-based sequences here: At(s, i)   *)
(* reads element i of the source array.  The model is a classification     *)
(* tree; doubles are modelled by exact integers and ratios of integers.    *)
(***************************************************************************)
EXTENDS Integers, Sequences, FiniteSets, TLC

VARIABLES dt, cfg, rows, pc, fed, accA, accB, accS, acc, sacc, last, found, n_calls,
          feedA, feedB, hist, ret

vars == <<dt, cfg, rows, pc, fed, accA, accB, accS, acc, sacc, last, found, n_calls,
          feedA, feedB, hist, ret>>

\* ---------------------------------------------------------------- bounds
\* number of rows of the training set
NRows == 4
\* largest max_depth the driver is configured with
MaxDepth == 2
\* largest max_n_surr the tree is configured with
MaxSurr == 2
\* rows fed to each of the two accumulators of the accumulator operations
MaxFed == 2

\* ------------------------------------------------- sentinels (DT_proto.hpp)
IN_PROCESS_LEAF == -1
FINISHED_LEAF == -2
NODE_NON_EXISTING == -3
SURR_NON_EXISTING == -1
\* content of a freshly resized array before it is written
UNINIT == -99
\* a continuous value that is null: no comparison with it is true
NaN == -1000

\* ------------------------------------------------------- training inputs
\* number of level codes of each categorical feature
cat_levels == <<2, 2>>
\* bin boundaries of each continuous feature
con_splits == << <<1, 2>> >>
Labels == {0, 1}
n_y_labels == Cardinality(Labels)
n_cat == Len(cat_levels)
n_con == Len(con_splits)
n_bins_in == Len(con_splits[1])

\* ---------------------------------------------------------------- helpers
At(s, i) == s[i + 1]

InRange(s, i) == i >= 0 /\ i < Len(s)

Const(n, v) == [k \in 1..n |-> v]

SetAt(s, i, v) == [k \in 1..Len(s) |-> IF k = i + 1 THEN v ELSE s[k]]

Segment(s, start, n) == [k \in 1..n |-> s[start + k]]

SetSegment(s, start, n, vals) ==
    [k \in 1..Len(s) |-> IF k > start /\ k <= start + n THEN vals[k - start] ELSE s[k]]

AddSegment(s, start, n, vals) ==
    [k \in 1..Len(s) |-> IF k > start /\ k <= start + n THEN s[k] + vals[k - start] ELSE s[k]]

AddVec(a, b) == [k \in 1..Len(a) |-> a[k] + b[k]]

RECURSIVE SumSeq(_)
SumSeq(s) == IF Len(s) = 0 THEN 0 ELSE s[1] + SumSeq(Tail(s))

RECURSIVE SumSq(_)
SumSq(s) == IF Len(s) = 0 THEN 0 ELSE s[1] * s[1] + SumSq(Tail(s))

RECURSIVE MaxSeq(_)
MaxSeq(s) == IF Len(s) = 1 THEN s[1]
             ELSE LET m == MaxSeq(Tail(s)) IN IF s[1] >= m THEN s[1] ELSE m

Max(a, b) == IF a >= b THEN a ELSE b

RECURSIVE Pow2(_)
Pow2(n) == IF n <= 0 THEN 1 ELSE 2 * Pow2(n - 1)

\* x <= t on doubles: false when x is NaN
Leq(x, t) == x # NaN /\ x <= t

\* ------------------------------------------------------- heap arithmetic
trueChild(i) == 2 * i + 1

falseChild(i) == 2 * i + 2

parentIndex(i) == IF i > 0 THEN (i - 1) \div 2 ELSE 0

\* null test injected by the caller: negative level code, NaN
isNull(v, is_cat) == IF is_cat THEN v < 0 ELSE v = NaN

\* ------------------------------------------------------------ tree store
\* number of cells of a predictions row (classification: n_y_labels + 1)
n_labels == n_y_labels + 1

ZeroRow == Const(n_labels, 0)

\* sizes of bind() for a tree of the given depth
BindNodesAlt(depth) == Pow2(depth)
BindNodes(depth) == Pow2(depth) - 1

\* resize(): every array re-bound to the sizes of bind(), content unwritten
resize(t) ==
    LET n_nodes == BindNodes(t.tree_depth)
        max_surrogates == t.max_n_surr
    IN [t EXCEPT !.feature_indices = Const(n_nodes, UNINIT),
                 !.feature_thresholds = Const(n_nodes, UNINIT),
                 !.is_categorical = Const(n_nodes, UNINIT),
                 !.nonnull_split_count = Const(n_nodes * 2, UNINIT),
                 !.surr_indices = Const(n_nodes * max_surrogates, UNINIT),
                 !.surr_thresholds = Const(n_nodes * max_surrogates, UNINIT),
                 !.surr_status = Const(n_nodes * max_surrogates, UNINIT),
                 !.surr_agreement = Const(n_nodes * max_surrogates, UNINIT),
                 !.predictions = Const(n_nodes, Const(n_labels, UNINIT))]

\* the one-node tree the driver starts from
NewTree(max_n_surr, impurity_type) ==
    [tree_depth |-> 1,
     n_y_labels |-> n_y_labels,
     max_n_surr |-> max_n_surr,
     impurity_type |-> impurity_type,
     feature_indices |-> <<IN_PROCESS_LEAF>>,
     feature_thresholds |-> <<0>>,
     is_categorical |-> <<0>>,
     nonnull_split_count |-> <<0, 0>>,
     surr_indices |-> Const(max_n_surr, SURR_NON_EXISTING),
     surr_thresholds |-> Const(max_n_surr, 0),
     surr_status |-> Const(max_n_surr, 0),
     surr_agreement |-> Const(max_n_surr, 0),
     predictions |-> <<ZeroRow>>]

NewLeaves(n_orig_nodes) == n_orig_nodes + 1

NewSlotAlt == IN_PROCESS_LEAF
NewSlot == NODE_NON_EXISTING

incrementInPlace(t) ==
    LET n_orig_nodes == Pow2(t.tree_depth) - 1
        orig == t
        g == resize([t EXCEPT !.tree_depth = @ + 1])
        n_new_leaves == NewLeaves(n_orig_nodes)
        m == t.max_n_surr
        put(arr, old, width, fill) ==
            SetSegment(SetSegment(arr, 0, n_orig_nodes * width, old),
                       n_orig_nodes * width, n_new_leaves * width,
                       Const(n_new_leaves * width, fill))
    IN [g EXCEPT
          !.feature_indices = put(@, orig.feature_indices, 1, NewSlot),
          !.feature_thresholds = put(@, orig.feature_thresholds, 1, 0),
          !.is_categorical = put(@, orig.is_categorical, 1, 0),
          !.nonnull_split_count = put(@, orig.nonnull_split_count, 2, 0),
          !.surr_indices = IF m > 0 THEN put(@, orig.surr_indices, m, SURR_NON_EXISTING) ELSE @,
          !.surr_thresholds = IF m > 0 THEN put(@, orig.surr_thresholds, m, 0) ELSE @,
          !.surr_status = IF m > 0 THEN put(@, orig.surr_status, m, 0) ELSE @,
          !.surr_agreement = IF m > 0 THEN put(@, orig.surr_agreement, m, 0) ELSE @,
          !.predictions = put(@, orig.predictions, 1, ZeroRow)]

\* ------------------------------------------------------------- inference
getMajorityCount(t, node_index) ==
    LET true_count == At(t.nonnull_split_count, node_index * 2)
        false_count == At(t.nonnull_split_count, node_index * 2 + 1)
    IN IF true_count >= false_count THEN true_count ELSE false_count

\* the runtime_error of getMajorityCount / getMajoritySplit
MajorityThrowsAlt(t, node_index) == At(t.feature_indices, node_index) <= 0
MajorityThrows(t, node_index) == At(t.feature_indices, node_index) < 0

MajoritySplitAlt(t, node_index) ==
    At(t.nonnull_split_count, node_index * 2) > At(t.nonnull_split_count, node_index * 2 + 1)
getMajoritySplit(t, node_index) ==
    At(t.nonnull_split_count, node_index * 2) >= At(t.nonnull_split_count, node_index * 2 + 1)

\* the answer of one surrogate: x <= threshold, negated for a reverse split
SurrAnswer(value, threshold, status) ==
    LET split_response == Leq(value, threshold)
    IN IF status > 0 THEN split_response ELSE ~split_response

Abs(x) == IF x < 0 THEN -x ELSE x

\* the for loop of getSurrSplit from slot surr_base_index on;
\* ok = FALSE when the call throws or reads outside the row
RECURSIVE surrLoop(_, _, _, _)
surrLoop(t, node_index, surr_base_index, row) ==
    LET fallback == [ok |-> ~MajorityThrows(t, node_index),
                     val |-> getMajoritySplit(t, node_index)]
    IN IF surr_base_index >= (node_index + 1) * t.max_n_surr THEN fallback
       ELSE LET surr_feat_index == At(t.surr_indices, surr_base_index)
                surr_feat_threshold == At(t.surr_thresholds, surr_base_index)
                status == At(t.surr_status, surr_base_index)
            IN IF surr_feat_index < 0 THEN fallback
               ELSE IF Abs(status) = 1
               THEN IF ~InRange(row.cat, surr_feat_index) THEN [ok |-> FALSE, val |-> FALSE]
                    ELSE IF ~isNull(At(row.cat, surr_feat_index), TRUE)
                    THEN [ok |-> TRUE,
                          val |-> SurrAnswer(At(row.cat, surr_feat_index),
                                             surr_feat_threshold, status)]
                    ELSE surrLoop(t, node_index, surr_base_index + 1, row)
               ELSE IF ~InRange(row.con, surr_feat_index) THEN [ok |-> FALSE, val |-> FALSE]
                    ELSE IF ~isNull(At(row.con, surr_feat_index), FALSE)
                    THEN [ok |-> TRUE,
                          val |-> SurrAnswer(At(row.con, surr_feat_index),
                                             surr_feat_threshold, status)]
                    ELSE surrLoop(t, node_index, surr_base_index + 1, row)

getSurrSplit(t, node_index, row) == surrLoop(t, node_index, node_index * t.max_n_surr, row)

\* the while loop of search from node current on.  status is "leaf" when the
\* loop ends at IN_PROCESS_LEAF / FINISHED_LEAF, and names the fault otherwise;
\* path lists the internal nodes visited with the branch taken at each.
RECURSIVE searchFrom(_, _, _, _)
searchFrom(t, row, current, path) ==
    IF ~InRange(t.feature_indices, current)
    THEN [index |-> current, status |-> "out_of_bounds", path |-> path]
    ELSE LET feature_index == At(t.feature_indices, current) IN
      IF feature_index = IN_PROCESS_LEAF \/ feature_index = FINISHED_LEAF
      THEN [index |-> current, status |-> "leaf", path |-> path]
      ELSE IF feature_index < 0
      THEN [index |-> current, status |-> "non_existing", path |-> path]
      ELSE LET is_cat == At(t.is_categorical, current) # 0
               feats == IF is_cat THEN row.cat ELSE row.con
           IN IF ~InRange(feats, feature_index)
              THEN [index |-> current, status |-> "out_of_bounds", path |-> path]
              ELSE LET value == At(feats, feature_index)
                       surr == getSurrSplit(t, current, row)
                       is_split_true ==
                           IF isNull(value, is_cat) THEN surr.val
                           ELSE Leq(value, At(t.feature_thresholds, current))
                   IN IF isNull(value, is_cat) /\ ~surr.ok
                      THEN [index |-> current, status |-> "threw", path |-> path]
                      ELSE searchFrom(t, row,
                               IF is_split_true THEN trueChild(current)
                                                ELSE falseChild(current),
                               Append(path, [node |-> current, branch |-> is_split_true]))

search(t, row) == searchFrom(t, row, 0, <<>>)

\* ----------------------------------------------------- accumulator layout
RECURSIVE CumSum(_, _)
CumSum(s, n) == IF n = 0 THEN 0 ELSE s[n] + CumSum(s, n - 1)

\* cat_levels_cumsum(f), inclusive prefix sums as the driver fills them
cat_levels_cumsum == [f \in 1..n_cat |-> CumSum(cat_levels, f)]

total_n_cat_levels == CumSum(cat_levels, n_cat)

computeSubIndexAlt(a, start_index, relative_index, is_split_true) == a.stats_per_split * 2 * (start_index + relative_index)
computeSubIndex(a, start_index, relative_index, is_split_true) ==
    LET col_index == a.stats_per_split * 2 * (start_index + relative_index)
    IN IF is_split_true THEN col_index ELSE col_index + a.stats_per_split

indexConStats(a, feature_index, bin_index, is_split_true) ==
    computeSubIndex(a, feature_index * a.n_bins, bin_index, is_split_true)

indexCatStats(a, feature_index, cat_value, is_split_true) ==
    LET cat_cumsum_value == IF feature_index = 0 THEN 0
                            ELSE At(a.cat_levels_cumsum, feature_index - 1)
    IN computeSubIndex(a, cat_cumsum_value, cat_value, is_split_true)

\* rebind(): an accumulator for the leaves of the deepest level of a tree of
\* the given depth, all statistics zero
AccRebind(in_n_bins, in_n_cat_feat, in_n_con_feat, in_n_total_levels, tree_depth, in_n_stats) ==
    LET n_leafs == IF tree_depth > 0 THEN Pow2(tree_depth - 1) ELSE 1
    IN [n_rows |-> 0,
        terminated |-> FALSE,
        n_bins |-> in_n_bins,
        n_cat_features |-> in_n_cat_feat,
        n_con_features |-> in_n_con_feat,
        total_n_cat_levels |-> in_n_total_levels,
        n_leaf_nodes |-> n_leafs,
        stats_per_split |-> in_n_stats,
        weights_as_rows |-> FALSE,
        cat_levels_cumsum |-> cat_levels_cumsum,
        cat_stats |-> Const(n_leafs, Const(in_n_total_levels * in_n_stats * 2, 0)),
        con_stats |-> Const(n_leafs, Const(in_n_con_feat * in_n_bins * in_n_stats * 2, 0)),
        node_stats |-> Const(n_leafs, Const(in_n_stats, 0))]

PrimaryAcc(tree_depth) ==
    AccRebind(n_bins_in, n_cat, n_con, total_n_cat_levels, tree_depth, n_y_labels + 1)

\* an accumulator that is not in use
NoAcc == PrimaryAcc(0)

\* the stats vector of one row (classification): weight at the response's
\* class, row count in the last cell
RowStats(a, response, weight) ==
    LET n == IF a.weights_as_rows THEN weight ELSE 1
    IN [k \in 1..a.stats_per_split |->
          IF k = a.stats_per_split THEN n
          ELSE IF k = response + 1 THEN weight ELSE 0]

updateNodeStatsAlt(a, node_index, response, weight) == [a EXCEPT !.node_stats = SetAt(@, node_index, RowStats(a, response, weight))]
updateNodeStats(a, node_index, response, weight) ==
    [a EXCEPT !.node_stats =
        SetAt(@, node_index, AddVec(At(@, node_index), RowStats(a, response, weight)))]

updateStats(a, is_cat, row_index, stats_index, response, weight) ==
    LET stats == RowStats(a, response, weight)
    IN IF is_cat
       THEN [a EXCEPT !.cat_stats =
               SetAt(@, row_index,
                     AddSegment(At(@, row_index), stats_index, a.stats_per_split, stats))]
       ELSE [a EXCEPT !.con_stats =
               SetAt(@, row_index,
                     AddSegment(At(@, row_index), stats_index, a.stats_per_split, stats))]

\* the two nested loops over (feature, level) and (feature, bin) of the
\* primary-pass update, as folds over the flattened candidate index k
RECURSIVE catLoop(_, _, _, _)
catLoop(a, row, row_index, k) ==
    IF k >= total_n_cat_levels THEN a
    ELSE LET i == CHOOSE f \in 0..(n_cat - 1) :
                    /\ k < cat_levels_cumsum[f + 1]
                    /\ k >= cat_levels_cumsum[f + 1] - cat_levels[f + 1]
             j == k - (cat_levels_cumsum[i + 1] - cat_levels[i + 1])
             v == At(row.cat, i)
         IN catLoop(IF ~isNull(v, TRUE)
                    THEN updateStats(a, TRUE, row_index,
                                     indexCatStats(a, i, j, v <= j), row.y, row.w)
                    ELSE a,
                    row, row_index, k + 1)

RECURSIVE conLoop(_, _, _, _)
conLoop(a, row, row_index, k) ==
    IF k >= a.n_con_features * a.n_bins THEN a
    ELSE LET i == k \div a.n_bins
             j == k % a.n_bins
             v == At(row.con, i)
         IN conLoop(IF ~isNull(v, FALSE)
                    THEN updateStats(a, FALSE, row_index,
                                     indexConStats(a, i, j, Leq(v, At(At(con_splits, i), j))),
                                     row.y, row.w)
                    ELSE a,
                    row, row_index, k + 1)

\* non-finite response
Inf == 1000
isfinite(y) == y # Inf /\ y # NaN

MaxFeatures == 65535

\* operator<<(tuple_type): the primary-pass update for one row
AccRowAlt(a, t, row) == IF ~isfinite(row.y) THEN [a EXCEPT !.terminated = TRUE] ELSE [a EXCEPT !.terminated = FALSE, !.n_rows = @ + 1]
AccRow(a, t, row) ==
    IF a.terminated THEN a
    ELSE IF \/ ~isfinite(row.y)
            \/ Len(row.cat) + Len(row.con) > MaxFeatures
            \/ a.n_cat_features # Len(row.cat)
            \/ a.n_con_features # Len(row.con)
    THEN [a EXCEPT !.terminated = TRUE]
    ELSE LET n_non_leaf_nodes == a.n_leaf_nodes - 1
             r == search(t, row)
             dt_search_index == r.index
             row_index == dt_search_index - n_non_leaf_nodes
             routed == /\ r.status = "leaf"
                       /\ At(t.feature_indices, dt_search_index) # FINISHED_LEAF
                       /\ At(t.feature_indices, dt_search_index) # NODE_NON_EXISTING
                       /\ row_index >= 0 /\ row_index < a.n_leaf_nodes
             a1 == IF routed
                   THEN conLoop(catLoop(updateNodeStats(a, row_index, row.y, row.w),
                                        row, row_index, 0),
                                row, row_index, 0)
                   ELSE a
         IN [a1 EXCEPT !.n_rows = @ + 1]

\* empty(): no row was accumulated
empty(a) == a.n_rows = 0

\* operator<<(TreeAccumulator): merge inOther into a
MergeAlt(a, inOther) ==
    [a EXCEPT !.cat_stats = inOther.cat_stats, !.con_stats = inOther.con_stats,
              !.node_stats = inOther.node_stats]
Merge(a, inOther) ==
    IF empty(inOther) THEN a
    ELSE IF \/ a.n_bins # inOther.n_bins
            \/ a.n_cat_features # inOther.n_cat_features
            \/ a.n_con_features # inOther.n_con_features
    THEN [a EXCEPT !.terminated = TRUE]
    ELSE [a EXCEPT
            !.cat_stats = [i \in 1..Len(@) |-> AddVec(@[i], inOther.cat_stats[i])],
            !.con_stats = [i \in 1..Len(@) |-> AddVec(@[i], inOther.con_stats[i])],
            !.node_stats = [i \in 1..Len(@) |-> AddVec(@[i], inOther.node_stats[i])]]

\* ---------------------------------------------------- impurity and gain
\* unweighted row count of a stats vector: its last cell
statCount(stats) == stats[Len(stats)]

\* weighted count of a stats vector (classification): sum of the class cells
statWeightedCount(stats) == SumSeq(Segment(stats, 0, n_y_labels))

\* impurityGain as an exact ratio num / den with den > 0.  With proportions
\* p = s / sum(s):  GINI = 1 - sum p^2,  MISCLASS = 1 - max p.
impurityGainAlt(t, combined_stats, sps) ==
    LET ts == Segment(combined_stats, 0, n_y_labels)
        fs == Segment(combined_stats, sps, n_y_labels)
        nT == SumSeq(ts)
        nF == SumSeq(fs)
        n == nT + nF
    IN IF n = 0 THEN [num |-> 0, den |-> 1]
       ELSE [num |-> nT + nF + 1, den |-> n]
impurityGain(t, combined_stats, sps) ==
    LET ts == Segment(combined_stats, 0, n_y_labels)
        fs == Segment(combined_stats, sps, n_y_labels)
        true_count == statWeightedCount(Segment(combined_stats, 0, sps))
        false_count == statWeightedCount(Segment(combined_stats, sps, sps))
        total_count == true_count + false_count
        stats_sum == AddVec(ts, fs)
    IN IF true_count = 0 \/ false_count = 0 THEN [num |-> 0, den |-> 1]
       ELSE IF t.impurity_type = "GINI"
       THEN [num |-> total_count * false_count * SumSq(ts)
                     + total_count * true_count * SumSq(fs)
                     - true_count * false_count * SumSq(stats_sum),
             den |-> total_count * total_count * true_count * false_count]
       ELSE [num |-> MaxSeq(ts) + MaxSeq(fs) - MaxSeq(stats_sum),
             den |-> total_count]

\* g1 > g2 on ratios
GainGtAlt(g1, g2) == g1.num * g2.den >= g2.num * g1.den
GainGt(g1, g2) == g1.num * g2.den > g2.num * g1.den

isChildPure(stats) ==
    LET total_count == SumSeq(Segment(stats, 0, n_y_labels))
        non_max_vals == total_count - MaxSeq(Segment(stats, 0, n_y_labels))
    IN total_count # 0 /\ non_max_vals * 1000 < total_count

shouldSplitAlt(t, combined_stats, min_split, min_bucket, stats_per_split, max_depth) ==
    LET thresh_min_bucket == IF min_bucket = 0 THEN 1 ELSE min_bucket
        true_count == statCount(Segment(combined_stats, 0, stats_per_split))
        false_count == statCount(Segment(combined_stats, stats_per_split, stats_per_split))
    IN /\ true_count + false_count >= min_split
       /\ true_count >= thresh_min_bucket
       /\ false_count >= thresh_min_bucket
shouldSplit(t, combined_stats, min_split, min_bucket, stats_per_split, max_depth) ==
    LET thresh_min_bucket == IF min_bucket = 0 THEN 1 ELSE min_bucket
        true_count == statCount(Segment(combined_stats, 0, stats_per_split))
        false_count == statCount(Segment(combined_stats, stats_per_split, stats_per_split))
    IN /\ true_count + false_count >= min_split
       /\ true_count >= thresh_min_bucket
       /\ false_count >= thresh_min_bucket
       /\ t.tree_depth <= max_depth

\* ------------------------------------------------------------------ expand
ChildMarkAlt == NODE_NON_EXISTING
ChildMark == IN_PROCESS_LEAF

updatePrimarySplitAlt(t, node_index, max_feat, max_threshold, max_is_cat, min_split, true_stats, false_stats) ==
    [dt |-> [t EXCEPT
               !.feature_indices = SetAt(SetAt(@, node_index, max_feat),
                                         trueChild(node_index), IN_PROCESS_LEAF),
               !.is_categorical = SetAt(@, node_index, IF max_is_cat THEN 1 ELSE 0),
               !.feature_thresholds = SetAt(@, node_index, max_threshold),
               !.predictions = SetAt(SetAt(@, trueChild(node_index), true_stats),
                                     falseChild(node_index), false_stats),
               !.nonnull_split_count = SetAt(SetAt(@, node_index * 2, statCount(true_stats)),
                                             node_index * 2 + 1, statCount(false_stats))],
     children_wont_split |-> /\ isChildPure(true_stats)
                             /\ isChildPure(false_stats)
                             /\ statCount(true_stats) < min_split
                             /\ statCount(false_stats) < min_split]
\* returns the updated tree and children_wont_split
updatePrimarySplit(t, node_index, max_feat, max_threshold, max_is_cat, min_split, true_stats, false_stats) ==
    LET true_count == statCount(true_stats)
        false_count == statCount(false_stats)
    IN [dt |-> [t EXCEPT
                  !.feature_indices =
                      SetAt(SetAt(SetAt(@, node_index, max_feat),
                                  trueChild(node_index), ChildMark),
                            falseChild(node_index), ChildMark),
                  !.is_categorical = SetAt(@, node_index, IF max_is_cat THEN 1 ELSE 0),
                  !.feature_thresholds = SetAt(@, node_index, max_threshold),
                  !.predictions = SetAt(SetAt(@, trueChild(node_index), true_stats),
                                        falseChild(node_index), false_stats),
                  !.nonnull_split_count = SetAt(SetAt(@, node_index * 2, true_count),
                                                node_index * 2 + 1, false_count)],
        children_wont_split |-> /\ isChildPure(true_stats)
                                /\ isChildPure(false_stats)
                                /\ true_count < min_split
                                /\ false_count < min_split]

\* candidate k of the scan of expand: every (feature, level) of the
\* categorical features, then every (feature, bin) of the continuous ones
n_candidates == total_n_cat_levels + n_con * n_bins_in

Candidate(state, i, k) ==
    IF k < total_n_cat_levels
    THEN LET f == CHOOSE g \in 0..(n_cat - 1) :
                    /\ k < cat_levels_cumsum[g + 1]
                    /\ k >= cat_levels_cumsum[g + 1] - cat_levels[g + 1]
             v == k - (cat_levels_cumsum[f + 1] - cat_levels[f + 1])
         IN [feat |-> f, bin |-> v, is_cat |-> TRUE,
             stats |-> Segment(At(state.cat_stats, i), indexCatStats(state, f, v, TRUE),
                               state.stats_per_split * 2)]
    ELSE LET c == k - total_n_cat_levels
             f == c \div state.n_bins
             b == c % state.n_bins
         IN [feat |-> f, bin |-> b, is_cat |-> FALSE,
             stats |-> Segment(At(state.con_stats, i), indexConStats(state, f, b, TRUE),
                               state.stats_per_split * 2)]

\* max_impurity_gain starts at -infinity: neg_inf
NoBest == [max_feat |-> -1, max_bin |-> -1, max_is_cat |-> FALSE, neg_inf |-> TRUE,
           gain |-> [num |-> 0, den |-> 1], max_stats |-> <<>>]

RECURSIVE scanSplits(_, _, _, _, _)
scanSplits(t, state, i, k, best) ==
    IF k >= n_candidates THEN best
    ELSE LET c == Candidate(state, i, k)
             gain == impurityGain(t, c.stats, state.stats_per_split)
         IN scanSplits(t, state, i, k + 1,
                IF best.neg_inf \/ GainGt(gain, best.gain)
                THEN [max_feat |-> c.feat, max_bin |-> c.bin, max_is_cat |-> c.is_cat,
                      neg_inf |-> FALSE, gain |-> gain, max_stats |-> c.stats]
                ELSE best)

\* step 3 of the loop body of expand: leaf current is split on the best
\* candidate when its gain is positive and shouldSplit allows, and becomes a
\* FINISHED_LEAF otherwise; t1 is the tree with the leaf's prediction set
commitSplit(st, t1, best, current, sps, min_split, min_bucket, max_depth) ==
    IF /\ ~best.neg_inf
       /\ best.gain.num > 0
       /\ shouldSplit(t1, best.max_stats, min_split, min_bucket, sps, max_depth)
    THEN LET max_threshold ==
                 IF best.max_is_cat THEN best.max_bin
                 ELSE At(At(con_splits, best.max_feat), best.max_bin)
             u == updatePrimarySplit(
                      IF st.children_not_allocated THEN incrementInPlace(t1) ELSE t1,
                      current, best.max_feat, max_threshold, best.max_is_cat, min_split,
                      Segment(best.max_stats, 0, sps), Segment(best.max_stats, sps, sps))
         IN [dt |-> u.dt,
             children_not_allocated |-> FALSE,
             children_wont_split |-> st.children_wont_split /\ u.children_wont_split,
             admitted |-> st.admitted \cup {current}]
    ELSE [st EXCEPT !.dt = [t1 EXCEPT !.feature_indices = SetAt(@, current, FINISHED_LEAF)]]

\* steps 1 and 2 of the loop body: the leaf's prediction is set from the node
\* statistics and the candidates are scanned for the best gain
scanLeaf(st, t1, state, i, current, min_split, min_bucket, max_depth) ==
    commitSplit(st, t1, scanSplits(t1, state, i, 0, NoBest), current,
                state.stats_per_split, min_split, min_bucket, max_depth)

\* the body of the for loop of expand for leaf i of the level
expandLeaf(st, state, i, current, min_split, min_bucket, max_depth) ==
    IF At(st.dt.feature_indices, current) # IN_PROCESS_LEAF THEN st
    ELSE scanLeaf(st, [st.dt EXCEPT !.predictions = SetAt(@, current, At(state.node_stats, i))],
                  state, i, current, min_split, min_bucket, max_depth)

RECURSIVE expandLeaves(_, _, _, _, _, _)
expandLeaves(st, state, i, min_split, min_bucket, max_depth) ==
    IF i >= state.n_leaf_nodes THEN st
    ELSE expandLeaves(expandLeaf(st, state, i, (state.n_leaf_nodes - 1) + i,
                                 min_split, min_bucket, max_depth),
                      state, i + 1, min_split, min_bucket, max_depth)

FinishedAlt(st, max_depth) == st.children_not_allocated \/ st.dt.tree_depth >= max_depth + 1
Finished(st, max_depth) ==
    \/ st.children_not_allocated
    \/ st.dt.tree_depth >= max_depth + 1
    \/ st.children_wont_split

RelabelAlt(v) == v
\* a remaining IN_PROCESS_LEAF becomes FINISHED_LEAF when training is finished
Relabel(v) == IF v = IN_PROCESS_LEAF THEN FINISHED_LEAF ELSE v

\* the end of expand: the tree after the call, the value returned, the nodes
\* split in the call and whether a level was allocated
finishExpand(st, training_finished) ==
    [dt |-> IF training_finished
            THEN [st.dt EXCEPT !.feature_indices = [k \in 1..Len(@) |-> Relabel(@[k])]]
            ELSE st.dt,
     training_finished |-> training_finished,
     admitted |-> st.admitted,
     grew |-> ~st.children_not_allocated]

expandLevel(st, max_depth) == finishExpand(st, Finished(st, max_depth))

expand(t, state, min_split, min_bucket, max_depth) ==
    expandLevel(expandLeaves([dt |-> t, children_not_allocated |-> TRUE,
                              children_wont_split |-> TRUE, admitted |-> {}],
                             state, 0, min_split, min_bucket, max_depth),
                max_depth)

\* ---------------------------------------------------------- surrogate pass
\* the accumulator of the surrogate pass: one row per node of the second
\* last layer, stats_per_split = 2
SurrAcc(tree_depth) ==
    AccRebind(n_bins_in, n_cat, n_con, total_n_cat_levels, tree_depth - 1, 2)

updateSurrStatsAlt(a, is_cat, surr_agrees, row_index, stats_index, dup_count) == IF is_cat THEN [a EXCEPT !.cat_stats = SetAt(@, row_index, AddSegment(At(@, row_index), stats_index, 2, IF surr_agrees THEN <<1, 0>> ELSE <<0, 1>>))] ELSE [a EXCEPT !.con_stats = SetAt(@, row_index, AddSegment(At(@, row_index), stats_index, 2, IF surr_agrees THEN <<1, 0>> ELSE <<0, 1>>))]
updateSurrStats(a, is_cat, surr_agrees, row_index, stats_index, dup_count) ==
    LET stats == IF surr_agrees THEN <<dup_count, 0>> ELSE <<0, dup_count>>
    IN IF is_cat
       THEN [a EXCEPT !.cat_stats =
               SetAt(@, row_index,
                     AddSegment(At(@, row_index), stats_index, a.stats_per_split, stats))]
       ELSE [a EXCEPT !.con_stats =
               SetAt(@, row_index,
                     AddSegment(At(@, row_index), stats_index, a.stats_per_split, stats))]

RECURSIVE surrCatLoop(_, _, _, _, _, _, _, _)
surrCatLoop(a, row, row_index, is_primary_cat, primary_index, is_primary_true, dup_count, k) ==
    IF k >= total_n_cat_levels THEN a
    ELSE LET i == CHOOSE f \in 0..(n_cat - 1) :
                    /\ k < cat_levels_cumsum[f + 1]
                    /\ k >= cat_levels_cumsum[f + 1] - cat_levels[f + 1]
             j == k - (cat_levels_cumsum[i + 1] - cat_levels[i + 1])
             v == At(row.cat, i)
             is_surrogate_true == v <= j
         IN surrCatLoop(
                IF ~(is_primary_cat /\ i = primary_index) /\ ~isNull(v, TRUE)
                THEN updateSurrStats(a, TRUE, is_primary_true = is_surrogate_true, row_index,
                                     indexCatStats(a, i, j, is_surrogate_true), dup_count)
                ELSE a,
                row, row_index, is_primary_cat, primary_index, is_primary_true, dup_count,
                k + 1)

RECURSIVE surrConLoop(_, _, _, _, _, _, _, _)
surrConLoop(a, row, row_index, is_primary_cat, primary_index, is_primary_true, dup_count, k) ==
    IF k >= a.n_con_features * a.n_bins THEN a
    ELSE LET i == k \div a.n_bins
             j == k % a.n_bins
             v == At(row.con, i)
             is_surrogate_true == Leq(v, At(At(con_splits, i), j))
         IN surrConLoop(
                IF ~(~is_primary_cat /\ i = primary_index) /\ ~isNull(v, FALSE)
                THEN updateSurrStats(a, FALSE, is_primary_true = is_surrogate_true, row_index,
                                     indexConStats(a, i, j, is_surrogate_true), dup_count)
                ELSE a,
                row, row_index, is_primary_cat, primary_index, is_primary_true, dup_count,
                k + 1)

\* operator<<(surr_tuple_type): the accumulators the surrogate-pass update
\* of one row can leave.  When the parent of the leaf found is itself a leaf
\* (a one-node tree) primary_val is read outside the row and is any value.
SurrRow(a, t, row, dup_count) ==
    IF \/ Len(row.cat) + Len(row.con) > MaxFeatures
       \/ a.n_cat_features # Len(row.cat)
       \/ a.n_con_features # Len(row.con)
    THEN {a}
    ELSE LET n_surr_nodes == a.n_leaf_nodes
             n_non_surr_nodes == n_surr_nodes - 1
             r == search(t, row)
             dt_parent_index == parentIndex(r.index)
             primary_index == At(t.feature_indices, dt_parent_index)
             is_primary_cat == At(t.is_categorical, dt_parent_index) # 0
         IN IF r.status # "leaf" THEN {a}
            ELSE IF primary_index < 0
            THEN IF dt_parent_index >= n_non_surr_nodes
                 THEN {a, [a EXCEPT !.n_rows = @ + 1]}
                 ELSE {a}
            ELSE LET primary_val == IF is_primary_cat THEN At(row.cat, primary_index)
                                    ELSE At(row.con, primary_index)
                     primary_threshold == At(t.feature_thresholds, dt_parent_index)
                     is_primary_true == Leq(primary_val, primary_threshold)
                     row_index == dt_parent_index - n_non_surr_nodes
                 IN IF dt_parent_index >= n_non_surr_nodes
                       /\ ~isNull(primary_val, is_primary_cat)
                    THEN {[surrConLoop(
                             surrCatLoop(a, row, row_index, is_primary_cat, primary_index,
                                         is_primary_true, dup_count, 0),
                             row, row_index, is_primary_cat, primary_index,
                             is_primary_true, dup_count, 0)
                           EXCEPT !.n_rows = @ + 1]}
                    ELSE {a}

\* ---------------------------------------------------------- pickSurrogates
\* forward and reverse agreement of split s in a row of surrogate statistics:
\* cells {0, 2} and {1, 3} of the split's 4 cells
AggCountsAlt(stats_row, n_splits) == [c \in 1..(2 * n_splits) |-> stats_row[4 * ((c - 1) \div 2) + (1 - ((c - 1) % 2)) + 1] + stats_row[4 * ((c - 1) \div 2) + (1 - ((c - 1) % 2)) + 3]]
AggCounts(stats_row, n_splits) ==
    [c \in 1..(2 * n_splits) |->
        LET s == (c - 1) \div 2
            odd == (c - 1) % 2
        IN stats_row[4 * s + odd + 1] + stats_row[4 * s + odd + 3]]

\* maxCoeff(&max_label): index of the first largest coefficient
FirstMax(s) == CHOOSE k \in 0..(Len(s) - 1) :
                  /\ s[k + 1] = MaxSeq(s)
                  /\ \A l \in 0..(k - 1) : s[l + 1] # MaxSeq(s)

\* best threshold, count and direction of every feature at row i of the layer
BestPerFeature(state, i) ==
    LET cat_stats_counts == AggCounts(At(state.cat_stats, i), state.total_n_cat_levels)
        con_stats_counts == AggCounts(At(state.con_stats, i),
                                      state.n_con_features * state.n_bins)
        catBest(each_cat) ==
            LET prev_cum_levels == IF each_cat = 0 THEN 0
                                   ELSE At(state.cat_levels_cumsum, each_cat - 1)
                n_levels == At(state.cat_levels_cumsum, each_cat) - prev_cum_levels
                seg == Segment(cat_stats_counts, prev_cum_levels * 2, n_levels * 2)
                max_label == FirstMax(seg)
            IN [thres |-> max_label \div 2, count |-> At(seg, max_label),
                is_reverse |-> max_label % 2]
        conBest(each_con) ==
            LET seg == Segment(con_stats_counts, each_con * state.n_bins * 2,
                               state.n_bins * 2)
                max_label == FirstMax(seg)
            IN [thres |-> At(At(con_splits, each_con), max_label \div 2),
                count |-> At(seg, max_label),
                is_reverse |-> max_label % 2]
    IN [k \in 1..(state.n_cat_features + state.n_con_features) |->
          IF k <= state.n_cat_features THEN catBest(k - 1)
          ELSE conBest(k - 1 - state.n_cat_features)]

\* argsort: a permutation of 0..n-1 that lists the counts in descending
\* order; std::sort leaves the order of equal counts open
IsArgsortAlt(perm, all_counts) == Len(perm) = Len(all_counts) /\ (\A k \in 0..(Len(perm) - 1) : \E j \in 1..Len(perm) : perm[j] = k) /\ (\A j \in 1..(Len(perm) - 1) : all_counts[perm[j] + 1].count <= all_counts[perm[j + 1] + 1].count)
IsArgsort(perm, all_counts) ==
    /\ Len(perm) = Len(all_counts)
    /\ \A k \in 0..(Len(perm) - 1) : \E j \in 1..Len(perm) : perm[j] = k
    /\ \A j \in 1..(Len(perm) - 1) :
          At(all_counts, perm[j]).count >= At(all_counts, perm[j + 1]).count

\* the surrogate is rejected: its count is below the majority count
BelowMajorityAlt(count, t, curr_node) == count < 0
BelowMajority(count, t, curr_node) == count < getMajorityCount(t, curr_node)

\* the slot the next surrogate of a node is stored in
SurrSlotAlt(curr_node, max_n_surr, j, surr_count) == curr_node * max_n_surr + (max_n_surr - 1 - surr_count)
SurrSlot(curr_node, max_n_surr, j, surr_count) == curr_node * max_n_surr + surr_count

\* the loop over the sorted candidates of one node, from position j on
RECURSIVE storeSurr(_, _, _, _, _, _, _)
storeSurr(t, curr_node, best, sorted, max_size, j, surr_count) ==
    IF j >= max_size THEN t
    ELSE LET curr_surr == At(sorted, j)
             b == At(best, curr_surr)
             n_cats == n_cat
             to_update_surr == SurrSlot(curr_node, t.max_n_surr, j, surr_count)
             is_cat == curr_surr < n_cats
             local == IF is_cat THEN curr_surr ELSE curr_surr - n_cats
             same_as_primary ==
                 /\ At(t.is_categorical, curr_node) = (IF is_cat THEN 1 ELSE 0)
                 /\ At(t.feature_indices, curr_node) = local
             code == IF is_cat THEN 1 ELSE 2
         IN IF BelowMajority(b.count, t, curr_node) THEN t
            ELSE IF same_as_primary
            THEN storeSurr(t, curr_node, best, sorted, max_size, j + 1, surr_count)
            ELSE storeSurr(
                   [t EXCEPT
                      !.surr_indices = SetAt(@, to_update_surr, local),
                      !.surr_thresholds = SetAt(@, to_update_surr, b.thres),
                      !.surr_status = SetAt(@, to_update_surr,
                                            IF b.is_reverse = 1 THEN -code ELSE code),
                      !.surr_agreement = SetAt(@, to_update_surr, b.count)],
                   curr_node, best, sorted, max_size, j + 1, surr_count + 1)

\* number of nodes of the second last layer
SurrNodes(tree_depth) == IF tree_depth < 2 THEN 0 ELSE Pow2(tree_depth - 2)

RECURSIVE pickLoop(_, _, _, _)
pickLoop(t, state, order, i) ==
    LET n_surr_nodes == SurrNodes(t.tree_depth)
        n_ancestors == n_surr_nodes - 1
        curr_node == n_ancestors + i
        n_feats == state.n_cat_features + state.n_con_features
        max_size == IF n_feats < t.max_n_surr THEN n_feats ELSE t.max_n_surr
    IN IF i >= n_surr_nodes THEN t
       ELSE pickLoop(IF At(t.feature_indices, curr_node) >= 0
                     THEN storeSurr(t, curr_node, BestPerFeature(state, i),
                                    At(order, i), max_size, 0, 0)
                     ELSE t,
                     state, order, i + 1)

\* pickSurrogates, with order[i] the outcome of argsort at node i of the layer
pickSurrogates(t, state, order) == pickLoop(t, state, order, 0)

\* ------------------------------------------------------------ the driver
Row(c0, c1, x, y, w) == [cat |-> <<c0, c1>>, con |-> <<x>>, y |-> y, w |-> w]

\* the rows a training set is drawn from
TrainRows ==
    << Row(0, 0, 3, 0, 2), Row(0, 1, 1, 1, 1), Row(1, 1, 1, 0, 1), Row(1, 0, 3, 1, 2),
       Row(-1, 0, 1, 1, 1), Row(1, -1, NaN, 0, 1) >>

\* the rows inference is asked about: every pattern of null features, with
\* two encodings of a null level code
QueryRows ==
    { Row(c0, c1, x, 0, 1) : c0 \in {0, 1, -1, -2}, c1 \in {0, 1, -1}, x \in {1, 3, NaN} }

MinSplits == {1, 3}
MinBuckets == {0, 2}
ImpurityTypes == {"GINI"}

Configs ==
    [max_depth : 0..MaxDepth, min_split : MinSplits, min_bucket : MinBuckets,
     max_n_surr : {0, MaxSurr}, impurity_type : ImpurityTypes]

NoLast == [training_finished |-> FALSE, admitted |-> {}, grew |-> FALSE, depth_before |-> 0]

NoFound == [row |-> Row(0, 0, 1, 0, 1), index |-> -1, status |-> "none", path |-> <<>>]

\* return value of the last call of a const member function: none yet
NoRet == [fn |-> "none", val |-> 0]

\* record of the last accumulator operation: none yet
NoHist == [op |-> "none", before |-> NoAcc, row |-> 0, dup |-> 0]

InitFor(configs) ==
    /\ cfg \in configs
    /\ \E pick \in [1..NRows -> 1..Len(TrainRows)] :
          /\ \A k \in 1..(NRows - 1) : pick[k] <= pick[k + 1]
          /\ rows = [k \in 1..NRows |-> TrainRows[pick[k]]]
    /\ dt = NewTree(cfg.max_n_surr, cfg.impurity_type)
    /\ pc = "scan"
    /\ fed = 0
    /\ accA = PrimaryAcc(1)
    /\ accB = PrimaryAcc(1)
    /\ accS = PrimaryAcc(1)
    /\ acc = NoAcc
    /\ sacc = NoAcc
    /\ last = NoLast
    /\ found = NoFound
    /\ n_calls = 0
    /\ feedA = <<>>
    /\ feedB = <<>>
    /\ hist = NoHist
    /\ ret = NoRet

Init == InitFor(Configs)

\* one row of the primary pass reaches one of the two shards; accS is the
\* single accumulator fed every row.  The shard that gets the first row is
\* called A.
FeedRowA ==
    /\ pc = "scan" /\ fed < NRows
    /\ accA' = AccRow(accA, dt, rows[fed + 1])
    /\ accS' = AccRow(accS, dt, rows[fed + 1])
    /\ fed' = fed + 1
    /\ found' = NoFound
    /\ UNCHANGED <<ret, dt, cfg, rows, pc, accB, acc, sacc, last, n_calls, feedA, feedB, hist>>

FeedRowB ==
    /\ pc = "scan" /\ fed < NRows
    /\ fed > 0
    /\ accB' = AccRow(accB, dt, rows[fed + 1])
    /\ accS' = AccRow(accS, dt, rows[fed + 1])
    /\ fed' = fed + 1
    /\ found' = NoFound
    /\ UNCHANGED <<ret, dt, cfg, rows, pc, accA, acc, sacc, last, n_calls, feedA, feedB, hist>>

\* the shards are merged, in either order; the receiver is not empty
MergeAB ==
    /\ pc = "scan" /\ fed = NRows
    /\ ~empty(accA)
    /\ acc' = Merge(accA, accB)
    /\ pc' = "merged"
    /\ accA' = NoAcc /\ accB' = NoAcc
    /\ found' = NoFound
    /\ UNCHANGED <<ret, dt, cfg, rows, fed, accS, sacc, last, n_calls, feedA, feedB, hist>>

MergeBA ==
    /\ pc = "scan" /\ fed = NRows
    /\ ~empty(accB)
    /\ acc' = Merge(accB, accA)
    /\ pc' = "merged"
    /\ accA' = NoAcc /\ accB' = NoAcc
    /\ found' = NoFound
    /\ UNCHANGED <<ret, dt, cfg, rows, fed, accS, sacc, last, n_calls, feedA, feedB, hist>>

\* the tree and the driver's record of the call, from the result of expand
ExpandResult(res, depth_before) ==
    /\ dt' = res.dt
    /\ last' = [training_finished |-> res.training_finished,
                admitted |-> res.admitted, grew |-> res.grew,
                depth_before |-> depth_before]

Expand ==
    /\ pc = "merged"
    /\ ~acc.terminated
    /\ ExpandResult(expand(dt, acc, cfg.min_split, cfg.min_bucket, cfg.max_depth), dt.tree_depth)
    /\ n_calls' = n_calls + 1
    /\ pc' = "expanded"
    /\ acc' = NoAcc
    /\ found' = NoFound
    /\ UNCHANGED <<ret, cfg, rows, fed, accA, accB, accS, sacc, feedA, feedB, hist>>

\* surrogates are trained when the tree has an internal layer and room for them
WantsSurr == dt.max_n_surr > 0 /\ dt.tree_depth >= 2

StartSurr ==
    /\ pc = "expanded" /\ WantsSurr
    /\ pc' = "surr"
    /\ fed' = 0
    /\ sacc' = SurrAcc(dt.tree_depth)
    /\ accS' = NoAcc
    /\ found' = NoFound
    /\ UNCHANGED <<ret, dt, cfg, rows, accA, accB, acc, last, n_calls, feedA, feedB, hist>>

FeedSurrRow ==
    /\ pc = "surr" /\ fed < NRows
    /\ sacc' \in SurrRow(sacc, dt, rows[fed + 1], 1)
    /\ fed' = fed + 1
    /\ found' = NoFound
    /\ UNCHANGED <<ret, dt, cfg, rows, pc, accA, accB, accS, acc, last, n_calls, feedA, feedB, hist>>

PickSurrogates ==
    /\ pc = "surr" /\ fed = NRows
    /\ LET n == SurrNodes(dt.tree_depth)
           n_feats == n_cat + n_con
           Perms == {p \in [1..n_feats -> 0..(n_feats - 1)] :
                        \A k \in 0..(n_feats - 1) : \E j \in 1..n_feats : p[j] = k}
       IN \E order \in [1..n -> Perms] :
             /\ \A i \in 0..(n - 1) : IsArgsort(At(order, i), BestPerFeature(sacc, i))
             /\ dt' = pickSurrogates(dt, sacc, order)
    /\ pc' = "picked"
    /\ sacc' = NoAcc
    /\ found' = NoFound
    /\ UNCHANGED <<ret, cfg, rows, fed, accA, accB, accS, acc, last, n_calls, feedA, feedB, hist>>

\* between passes: the level is expanded and its surrogates are trained
Idle == pc = "picked" \/ (pc = "expanded" /\ ~WantsSurr)

NextPass ==
    /\ Idle
    /\ ~last.training_finished
    /\ pc' = "scan"
    /\ fed' = 0
    /\ accA' = PrimaryAcc(dt.tree_depth)
    /\ accB' = PrimaryAcc(dt.tree_depth)
    /\ accS' = PrimaryAcc(dt.tree_depth)
    /\ found' = NoFound
    /\ UNCHANGED <<ret, dt, cfg, rows, acc, sacc, last, n_calls, feedA, feedB, hist>>

\* inference on the tree as it stands after a pass
Search ==
    /\ Idle
    /\ found = NoFound
    /\ \E row \in QueryRows :
          LET r == search(dt, row)
          IN found' = [row |-> row, index |-> r.index, status |-> r.status, path |-> r.path]
    /\ UNCHANGED <<ret, dt, cfg, rows, pc, fed, accA, accB, accS, acc, sacc, last, n_calls, feedA, feedB, hist>>

Next ==
    \/ FeedRowA
    \/ FeedRowB
    \/ MergeAB
    \/ MergeBA
    \/ Expand
    \/ StartSurr
    \/ FeedSurrRow
    \/ PickSurrogates
    \/ NextPass
    \/ Search

Spec == Init /\ [][Next]_vars

\* the training loop of trees that keep 1..MaxSurr surrogates per node and
\* grow to the depth limit
SurrInit == InitFor([max_depth : {MaxDepth}, min_split : {1}, min_bucket : {0}, max_n_surr : 1..MaxSurr, impurity_type : ImpurityTypes])

SurrSpec == SurrInit /\ [][Next]_vars

\* ===================================================== expand_by_sampling
\* the candidates of feature f of the combined list (categorical features
\* first), in the order the scan visits them, as indices of Candidate
FeatureCands(state, f) ==
    IF f >= 0 /\ f < state.n_cat_features
    THEN LET v_end == IF f < 1 THEN At(state.cat_levels_cumsum, 0)
                      ELSE At(state.cat_levels_cumsum, f) - At(state.cat_levels_cumsum, f - 1)
             first == IF f < 1 THEN 0 ELSE At(state.cat_levels_cumsum, f - 1)
         IN [v \in 1..v_end |-> first + v - 1]
    ELSE [b \in 1..state.n_bins |->
             state.total_n_cat_levels + (f - state.n_cat_features) * state.n_bins + b - 1]

SampledCandsAlt(state, shuffled, n_random_features) == IF n_random_features = 0 THEN <<>> ELSE FeatureCands(state, shuffled[Len(shuffled)])
RECURSIVE SampledCands(_, _, _)
\* the candidates of the first n_random_features features of the shuffled list
SampledCands(state, shuffled, n_random_features) ==
    IF n_random_features = 0 THEN <<>>
    ELSE SampledCands(state, shuffled, n_random_features - 1)
            \o FeatureCands(state, shuffled[n_random_features])

RECURSIVE scanSampled(_, _, _, _, _)
scanSampled(t, state, i, cands, best) ==
    IF cands = <<>> THEN best
    ELSE LET c == Candidate(state, i, Head(cands))
             gain == impurityGain(t, c.stats, state.stats_per_split)
         IN scanSampled(t, state, i, Tail(cands),
                IF best.neg_inf \/ GainGt(gain, best.gain)
                THEN [max_feat |-> c.feat, max_bin |-> c.bin, max_is_cat |-> c.is_cat,
                      neg_inf |-> FALSE, gain |-> gain, max_stats |-> c.stats]
                ELSE best)

\* the body of the for loop of expand_by_sampling for leaf i of the level
sampleLeaf(st, state, i, current, min_split, min_bucket, max_depth, cands) ==
    IF At(st.dt.feature_indices, current) # IN_PROCESS_LEAF THEN st
    ELSE commitSplit(st, [st.dt EXCEPT !.predictions = SetAt(@, current, At(state.node_stats, i))],
                     scanSampled(st.dt, state, i, cands, NoBest), current,
                     state.stats_per_split, min_split, min_bucket, max_depth)

RECURSIVE sampleLeaves(_, _, _, _, _, _, _, _)
sampleLeaves(st, state, i, min_split, min_bucket, max_depth, n_random_features, shuffles) ==
    IF i >= state.n_leaf_nodes THEN st
    ELSE sampleLeaves(sampleLeaf(st, state, i, (state.n_leaf_nodes - 1) + i,
                                 min_split, min_bucket, max_depth,
                                 SampledCands(state, shuffles[i + 1], n_random_features)),
                      state, i + 1, min_split, min_bucket, max_depth,
                      n_random_features, shuffles)

\* expand_by_sampling, with shuffles[i + 1] the outcome of std::random_shuffle
\* at leaf i
expand_by_sampling(t, state, min_split, min_bucket, max_depth, n_random_features, shuffles) ==
    expandLevel(sampleLeaves([dt |-> t, children_not_allocated |-> TRUE,
                              children_wont_split |-> TRUE, admitted |-> {}],
                             state, 0, min_split, min_bucket, max_depth,
                             n_random_features, shuffles),
                max_depth)

\* the outcomes of std::random_shuffle on the list 0..n_cat + n_con - 1
Shuffles == {p \in [1..(n_cat + n_con) -> 0..(n_cat + n_con - 1)] : \A k \in 0..(n_cat + n_con - 1) : \E j \in 1..(n_cat + n_con) : p[j] = k}

\* a call of expand_by_sampling
ExpandBySampling ==
    /\ pc = "merged"
    /\ ~acc.terminated
    /\ \E n_random_features \in 0..(n_cat + n_con), shuffles \in [1..acc.n_leaf_nodes -> Shuffles] :
          ExpandResult(expand_by_sampling(dt, acc, cfg.min_split, cfg.min_bucket, cfg.max_depth, n_random_features, shuffles), dt.tree_depth)
    /\ n_calls' = n_calls + 1
    /\ pc' = "expanded"
    /\ acc' = NoAcc
    /\ found' = NoFound
    /\ UNCHANGED <<ret, cfg, rows, fed, accA, accB, accS, sacc, feedA, feedB, hist>>

\* random-subspace training without surrogates
SampInit == InitFor([max_depth : {MaxDepth}, min_split : {1}, min_bucket : MinBuckets, max_n_surr : {0}, impurity_type : ImpurityTypes])

SampNext ==
    \/ FeedRowA
    \/ FeedRowB
    \/ MergeAB
    \/ MergeBA
    \/ ExpandBySampling
    \/ NextPass

SampSpec == SampInit /\ [][SampNext]_vars

\* ============================================ the accumulator's operations
\* The accumulator on its own: two accumulators of one tree are fed rows,
\* valid and invalid, in any order; the first receives the second in a merge
\* and the merged accumulator is fed one more row.

RECURSIVE FoldRows(_, _, _)
\* accumulator a after the primary-pass update of the rows of s, in order
FoldRows(a, t, s) == IF s = <<>> THEN a ELSE FoldRows(AccRow(a, t, Head(s)), t, Tail(s))

\* a tree of two levels: the root split by expand on the first four TrainRows
SeedTree ==
    expand(NewTree(MaxSurr, "GINI"),
           FoldRows(PrimaryAcc(1), NewTree(MaxSurr, "GINI"), SubSeq(TrainRows, 1, 4)),
           1, 0, MaxDepth).dt

\* a tree between two passes with a finished leaf above its in-process
\* leaves: two expand calls on a training set whose first child is pure
SeedLevel(t) == expand(t, FoldRows(PrimaryAcc(t.tree_depth), t, <<TrainRows[1], TrainRows[1], TrainRows[3], TrainRows[4]>>), 1, 0, MaxDepth + 1).dt
SeedTree3 == SeedLevel(SeedLevel(NewTree(MaxSurr, "GINI")))

\* a categorical feature vector that makes a row of MaxFeatures + 1 features
WideCat == [k \in 1..(MaxFeatures + 1 - n_con) |-> 0]

\* the rows fed: two valid rows (one with null features), a non-finite
\* response (the surrogate pass reads no response), a missing categorical
\* feature, a missing continuous feature, and more than MaxFeatures features
AccRows ==
    << Row(0, 1, 1, 1, 1),
       Row(1, -1, NaN, 0, 2),
       Row(1, 0, 1, Inf, 1),
       [cat |-> <<0>>, con |-> <<1>>, y |-> 0, w |-> 1],
       [cat |-> <<0, 1>>, con |-> <<>>, y |-> 0, w |-> 1],
       [cat |-> WideCat, con |-> <<1>>, y |-> 0, w |-> 1] >>

\* rebind() for the pass: the primary pass on the leaves of the tree, the
\* surrogate pass on the layer above them
PassAccAlt(pass, tree_depth, in_n_bins) == AccRebind(in_n_bins, n_cat, n_con, total_n_cat_levels, tree_depth + 1, IF pass = "primary" THEN n_y_labels + 1 ELSE 2)
PassAcc(pass, tree_depth, in_n_bins) ==
    IF pass = "primary"
    THEN AccRebind(in_n_bins, n_cat, n_con, total_n_cat_levels, tree_depth, n_y_labels + 1)
    ELSE AccRebind(in_n_bins, n_cat, n_con, total_n_cat_levels, tree_depth - 1, 2)

\* the accumulators one row can leave, by the update of the pass
AccFeed(a, row, dup_count) == IF pc = "primary" THEN {AccRow(a, dt, row)} ELSE SurrRow(a, dt, row, dup_count)

\* dup_count of the surrogate tuple; the primary tuple has none
DupCounts == IF pc = "primary" THEN {1} ELSE {1, 2}

AccInit ==
    /\ cfg = [max_depth |-> MaxDepth, min_split |-> 1, min_bucket |-> 0,
              max_n_surr |-> MaxSurr, impurity_type |-> "GINI"]
    /\ rows = <<>>
    /\ \/ pc = "primary" /\ dt \in {NewTree(MaxSurr, "GINI"), SeedTree, SeedTree3}
       \/ pc = "surrogate" /\ dt \in {SeedTree, SeedTree3}
    /\ accA = PassAcc(pc, dt.tree_depth, n_bins_in)
    /\ accB \in {PassAcc(pc, dt.tree_depth, n_bins_in), PassAcc(pc, dt.tree_depth, 1)}
    /\ fed = 0
    /\ accS = NoAcc
    /\ acc = NoAcc
    /\ sacc = NoAcc
    /\ last = NoLast
    /\ found = NoFound
    /\ n_calls = 0
    /\ feedA = <<>>
    /\ feedB = <<>>
    /\ hist = NoHist
    /\ ret = NoRet

AccFeedA ==
    /\ hist.op \in {"none", "rowA", "rowB"}
    /\ Len(feedA) < MaxFed
    /\ \E r \in 1..Len(AccRows), d \in DupCounts :
          /\ accA' \in AccFeed(accA, AccRows[r], d)
          /\ feedA' = Append(feedA, r)
          /\ hist' = [op |-> "rowA", before |-> accA, row |-> r, dup |-> d]
    /\ UNCHANGED <<ret, dt, cfg, rows, pc, fed, accB, accS, acc, sacc, last, found, n_calls, feedB>>

AccFeedB ==
    /\ hist.op \in {"none", "rowA", "rowB"}
    /\ Len(feedB) < MaxFed
    /\ \E r \in 1..Len(AccRows), d \in DupCounts :
          /\ accB' \in AccFeed(accB, AccRows[r], d)
          /\ feedB' = Append(feedB, r)
          /\ hist' = [op |-> "rowB", before |-> accB, row |-> r, dup |-> d]
    /\ UNCHANGED <<ret, dt, cfg, rows, pc, fed, accA, accS, acc, sacc, last, found, n_calls, feedA>>

\* accA receives accB; the result is kept in acc
AccMerge ==
    /\ hist.op \in {"none", "rowA", "rowB"}
    /\ acc' = Merge(accA, accB)
    /\ hist' = [op |-> "merge", before |-> accA, row |-> 0, dup |-> 0]
    /\ UNCHANGED <<ret, dt, cfg, rows, pc, fed, accA, accB, accS, sacc, last, found, n_calls,
                   feedA, feedB>>

\* the merged accumulator is fed one more row
AccFeedMerged ==
    /\ hist.op = "merge"
    /\ \E r \in 1..Len(AccRows), d \in DupCounts :
          /\ acc' \in AccFeed(acc, AccRows[r], d)
          /\ hist' = [op |-> "rowM", before |-> acc, row |-> r, dup |-> d]
    /\ UNCHANGED <<ret, dt, cfg, rows, pc, fed, accA, accB, accS, sacc, last, found, n_calls,
                   feedA, feedB>>

AccNext ==
    \/ AccFeedA
    \/ AccFeedB
    \/ AccMerge
    \/ AccFeedMerged

AccSpec == AccInit /\ [][AccNext]_vars


\* ------------------------------------------------------ recomputeTreeDepth
\* the scan over the levels 2..tree_depth, from the shallowest
RECURSIVE depthScan(_, _)
depthScan(t, depth_counter) ==
    IF depth_counter > t.tree_depth THEN t.tree_depth
    ELSE LET n_leaf_nodes == Pow2(depth_counter - 1)
             leaf_start_index == n_leaf_nodes - 1
             all_non_existing ==
                 \A leaf_index \in 0..(n_leaf_nodes - 1) :
                     At(t.feature_indices, leaf_start_index + leaf_index) = NODE_NON_EXISTING
         IN IF all_non_existing THEN depth_counter - 1
            ELSE depthScan(t, depth_counter + 1)

recomputeTreeDepthAlt(t) == t.tree_depth
recomputeTreeDepth(t) ==
    IF Len(t.feature_indices) <= 1 \/ t.tree_depth <= 1 THEN t.tree_depth
    ELSE depthScan(t, 2)

\* the deepest tree_depth of the trees recomputeTreeDepth is applied to
MaxLevels == 3

\* the marks slot i may carry in an array of n_nodes slots whose slots
\* 0..i-1 are f: the root exists, a slot below an internal node exists, a
\* slot below a leaf or below nothing is NODE_NON_EXISTING, and a slot of the
\* deepest level has no children to be internal for
SlotMarks(f, i, n_nodes) ==
    IF i > 0 /\ At(f, parentIndex(i)) < 0 THEN {NODE_NON_EXISTING}
    ELSE IF trueChild(i) >= n_nodes THEN {IN_PROCESS_LEAF, FINISHED_LEAF}
    ELSE {0, 1, IN_PROCESS_LEAF, FINISHED_LEAF}

RECURSIVE FillSlots(_, _)
FillSlots(f, n_nodes) ==
    IF Len(f) = n_nodes THEN {f}
    ELSE UNION { FillSlots(Append(f, v), n_nodes) : v \in SlotMarks(f, Len(f), n_nodes) }

\* every tree of tree_depth depth, the ones whose deepest levels hold no node
\* included
DepthTrees(depth) ==
    { [tree_depth |-> depth, feature_indices |-> f] : f \in FillSlots(<<>>, BindNodes(depth)) }

DepthInit ==
    /\ dt \in UNION { DepthTrees(depth) : depth \in 0..MaxLevels }
    /\ cfg = [max_depth |-> MaxDepth, min_split |-> 1, min_bucket |-> 0,
              max_n_surr |-> MaxSurr, impurity_type |-> "GINI"]
    /\ rows = <<>>
    /\ pc = "depth"
    /\ fed = 0
    /\ accA = NoAcc
    /\ accB = NoAcc
    /\ accS = NoAcc
    /\ acc = NoAcc
    /\ sacc = NoAcc
    /\ last = NoLast
    /\ found = NoFound
    /\ n_calls = 0
    /\ feedA = <<>>
    /\ feedB = <<>>
    /\ hist = NoHist
    /\ ret = NoRet

RecomputeTreeDepth ==
    /\ ret.fn = "none"
    /\ ret' = [fn |-> "recomputeTreeDepth", val |-> recomputeTreeDepth(dt)]
    /\ UNCHANGED <<dt, cfg, rows, pc, fed, accA, accB, accS, acc, sacc, last, found, n_calls,
                   feedA, feedB, hist>>

DepthNext == RecomputeTreeDepth

DepthSpec == DepthInit /\ [][DepthNext]_vars


\* ------------------------------------------------------------- computeRisk
\* updateNodeStats, regression: weight, weight * response, weight *
\* response^2 and the row count (weights_as_rows false)
RegStats(response, weight) == <<weight, weight * response, weight * response * response, 1>>

computeMisclassification(t, node_index) ==
    IF t.is_regression THEN 0
    ELSE SumSeq(Segment(At(t.predictions, node_index), 0, t.n_y_labels))
             - MaxSeq(Segment(At(t.predictions, node_index), 0, t.n_y_labels))

\* computeRisk as an exact ratio num / den with den > 0
computeRisk(t, node_index) ==
    IF t.is_regression
    THEN LET wt_tot == At(At(t.predictions, node_index), 0)
             y_avg == At(At(t.predictions, node_index), 1)
             y2_avg == At(At(t.predictions, node_index), 2)
         IN IF wt_tot <= 0 THEN [num |-> 0, den |-> 1]
            ELSE [num |-> y2_avg * wt_tot - y_avg * y_avg, den |-> wt_tot]
    ELSE [num |-> computeMisclassification(t, node_index), den |-> 1]

\* rows counted at the node computeRisk is asked about
MaxRiskRows == 3

\* a one-node tree of either kind with no row counted; a regression tree
\* keeps four statistics per node
RiskInit ==
    /\ \E is_regression \in BOOLEAN :
          dt = [tree_depth |-> 1, is_regression |-> is_regression,
                n_y_labels |-> IF is_regression THEN 4 ELSE n_y_labels,
                feature_indices |-> <<FINISHED_LEAF>>,
                predictions |-> << IF is_regression THEN Const(4, 0) ELSE ZeroRow >>]
    /\ cfg = [max_depth |-> MaxDepth, min_split |-> 1, min_bucket |-> 0,
              max_n_surr |-> MaxSurr, impurity_type |-> "GINI"]
    /\ rows = <<>>
    /\ pc = "risk"
    /\ fed = 0
    /\ accA = NoAcc
    /\ accB = NoAcc
    /\ accS = NoAcc
    /\ acc = NoAcc
    /\ sacc = NoAcc
    /\ last = NoLast
    /\ found = NoFound
    /\ n_calls = 0
    /\ feedA = <<>>
    /\ feedB = <<>>
    /\ hist = NoHist
    /\ ret = NoRet

\* one more training row is counted in the node's statistics, which expand
\* copies to the node's predictions row
RiskRow ==
    /\ ret.fn = "none"
    /\ statCount(At(dt.predictions, 0)) < MaxRiskRows
    /\ \E response \in (IF dt.is_regression THEN {-1, 0, 2} ELSE Labels), weight \in {1, 2} :
          dt' = [dt EXCEPT !.predictions[1] =
                    AddVec(@, IF dt.is_regression THEN RegStats(response, weight)
                              ELSE RowStats(PrimaryAcc(1), response, weight))]
    /\ UNCHANGED <<ret, cfg, rows, pc, fed, accA, accB, accS, acc, sacc, last, found, n_calls,
                   feedA, feedB, hist>>

ComputeRisk ==
    /\ ret.fn = "none"
    /\ ret' = [fn |-> "computeRisk", val |-> computeRisk(dt, 0)]
    /\ UNCHANGED <<dt, cfg, rows, pc, fed, accA, accB, accS, acc, sacc, last, found, n_calls,
                   feedA, feedB, hist>>

RiskNext == RiskRow \/ ComputeRisk

RiskSpec == RiskInit /\ [][RiskNext]_vars


\* ------------------------------------------------- regression (scenario S2)
\* bin boundaries 1.5 and 2.5 of the one continuous feature, in units of 1/2
reg_con_splits == << <<3, 5>> >>

\* rows of the regression training set
MaxRegRows == 3

\* operator<<(tuple_type) on the one-node regression tree: the row is counted
\* at the root, on one side of every bin
AccRowReg(a, row) ==
    IF a.terminated THEN a
    ELSE IF ~isfinite(row.y) \/ a.n_cat_features # Len(row.cat) \/ a.n_con_features # Len(row.con)
    THEN [a EXCEPT !.terminated = TRUE]
    ELSE [a EXCEPT
            !.node_stats = SetAt(@, 0, AddVec(At(@, 0), RegStats(row.y, row.w))),
            !.con_stats = SetAt(@, 0,
                [k \in 1..Len(At(@, 0)) |->
                    At(@, 0)[k] +
                        (IF \E j \in 0..(a.n_bins - 1) :
                                /\ ~isNull(At(row.con, 0), FALSE)
                                /\ k - 1 \in indexConStats(a, 0, j, Leq(At(row.con, 0), At(At(reg_con_splits, 0), j)))
                                          ..(indexConStats(a, 0, j, Leq(At(row.con, 0), At(At(reg_con_splits, 0), j))) + 3)
                         THEN RegStats(row.y, row.w)[((k - 1) % 4) + 1]
                         ELSE 0)]),
            !.n_rows = @ + 1]

\* impurity of a regression stats vector, the variance, as an exact ratio
impurityRegAlt(stats) == [num |-> stats[3], den |-> stats[1]]
impurityReg(stats) == [num |-> stats[3] * stats[1] - stats[2] * stats[2], den |-> stats[1] * stats[1]]

\* impurityGain of a regression candidate as an exact ratio with den > 0
impurityGainReg(combined_stats) ==
    LET ts == Segment(combined_stats, 0, 4)
        fs == Segment(combined_stats, 4, 4)
        true_count == ts[1]
        false_count == fs[1]
        total_count == true_count + false_count
    IN IF true_count = 0 \/ false_count = 0 THEN [num |-> 0, den |-> 1]
       ELSE [num |-> impurityReg(AddVec(ts, fs)).num * impurityReg(ts).den * impurityReg(fs).den * total_count
                     - true_count * impurityReg(ts).num * impurityReg(AddVec(ts, fs)).den * impurityReg(fs).den
                     - false_count * impurityReg(fs).num * impurityReg(AddVec(ts, fs)).den * impurityReg(ts).den,
             den |-> impurityReg(AddVec(ts, fs)).den * impurityReg(ts).den * impurityReg(fs).den * total_count]

\* isChildPure, regression: variance < 1e-5 * mean^2
isChildPureReg(stats) == (stats[3] * stats[1] - stats[2] * stats[2]) * 100000 < stats[2] * stats[2]

\* the scan of expand over the bins of the continuous feature, from bin b on
RECURSIVE scanSplitsReg(_, _, _)
scanSplitsReg(state, b, best) ==
    IF b >= state.n_bins THEN best
    ELSE scanSplitsReg(state, b + 1,
            IF best.neg_inf \/ GainGt(impurityGainReg(Segment(At(state.con_stats, 0), indexConStats(state, 0, b, TRUE), 8)), best.gain)
            THEN [max_feat |-> 0, max_bin |-> b, max_is_cat |-> FALSE, neg_inf |-> FALSE,
                  gain |-> impurityGainReg(Segment(At(state.con_stats, 0), indexConStats(state, 0, b, TRUE), 8)),
                  max_stats |-> Segment(At(state.con_stats, 0), indexConStats(state, 0, b, TRUE), 8)]
            ELSE best)

\* the one-node regression tree: four statistics per node
NewTreeReg == [[is_regression |-> TRUE] @@ NewTree(0, "GINI") EXCEPT !.n_y_labels = 4, !.predictions = <<Const(4, 0)>>]

\* the tree after expand on the one-node regression tree t1 (prediction of the
\* root set) with the best candidate found
commitSplitReg(t1, best, min_split, min_bucket, max_depth) ==
    IF ~best.neg_inf /\ best.gain.num > 0 /\ shouldSplit(t1, best.max_stats, min_split, min_bucket, 4, max_depth)
    THEN [updatePrimarySplit(incrementInPlace(t1), 0, best.max_feat,
                             At(At(reg_con_splits, best.max_feat), best.max_bin), FALSE, min_split,
                             Segment(best.max_stats, 0, 4), Segment(best.max_stats, 4, 4)).dt
          EXCEPT !.feature_indices =
              [k \in 1..Len(@) |->
                  IF /\ @[k] = IN_PROCESS_LEAF
                     /\ \/ 2 >= max_depth + 1
                        \/ /\ isChildPureReg(Segment(best.max_stats, 0, 4))
                           /\ isChildPureReg(Segment(best.max_stats, 4, 4))
                           /\ statCount(Segment(best.max_stats, 0, 4)) < min_split
                           /\ statCount(Segment(best.max_stats, 4, 4)) < min_split
                  THEN FINISHED_LEAF ELSE @[k]]]
    ELSE [t1 EXCEPT !.feature_indices = <<FINISHED_LEAF>>]

expandReg(t, state, min_split, min_bucket, max_depth) ==
    commitSplitReg([t EXCEPT !.predictions = SetAt(@, 0, At(state.node_stats, 0))],
                   scanSplitsReg(state, 0, NoBest), min_split, min_bucket, max_depth)

RegInit ==
    /\ cfg = [max_depth |-> MaxDepth, min_split |-> 1, min_bucket |-> 0,
              max_n_surr |-> 0, impurity_type |-> "GINI"]
    /\ \E xs \in [1..MaxRegRows -> {2, 4, 6}], ys \in [1..MaxRegRows -> {1, 2, 3}] :
          /\ \A k \in 1..(MaxRegRows - 1) : xs[k] <= xs[k + 1]
          /\ rows = [k \in 1..MaxRegRows |-> [cat |-> <<>>, con |-> <<xs[k]>>, y |-> ys[k], w |-> 1]]
    /\ dt = NewTreeReg
    /\ pc = "scan"
    /\ fed = 0
    /\ accA = NoAcc
    /\ accB = NoAcc
    /\ accS = NoAcc
    /\ acc = AccRebind(2, 0, 1, 0, 1, 4)
    /\ sacc = NoAcc
    /\ last = NoLast
    /\ found = NoFound
    /\ n_calls = 0
    /\ feedA = <<>>
    /\ feedB = <<>>
    /\ hist = NoHist
    /\ ret = NoRet

RegFeedRow ==
    /\ pc = "scan" /\ fed < MaxRegRows
    /\ acc' = AccRowReg(acc, rows[fed + 1])
    /\ fed' = fed + 1
    /\ UNCHANGED <<dt, cfg, rows, pc, accA, accB, accS, sacc, last, found, n_calls,
                   feedA, feedB, hist, ret>>

RegExpand ==
    /\ pc = "scan" /\ fed = MaxRegRows
    /\ dt' = expandReg(dt, acc, cfg.min_split, cfg.min_bucket, cfg.max_depth)
    /\ pc' = "expanded"
    /\ n_calls' = n_calls + 1
    /\ UNCHANGED <<cfg, rows, fed, accA, accB, accS, acc, sacc, last, found,
                   feedA, feedB, hist, ret>>

RegNext == RegFeedRow \/ RegExpand

RegSpec == RegInit /\ [][RegNext]_vars


\* ================================================================ claims
Nodes == 0..(Len(dt.feature_indices) - 1)

IsLeafMark(v) == v = IN_PROCESS_LEAF \/ v = FINISHED_LEAF

\* C1: the merge of the two shard accumulators, in either order, has the
\* cat_stats, con_stats and node_stats of the single accumulator fed all rows
C1_MergeEqualsSinglePass ==
    pc = "merged" =>
        /\ acc.cat_stats = accS.cat_stats
        /\ acc.con_stats = accS.con_stats
        /\ acc.node_stats = accS.node_stats

\* both shards got rows of a tree of two levels, routed to both of its leaves
C1_Witness ==
    /\ pc = "merged"
    /\ acc.n_rows > 0 /\ acc.n_rows < accS.n_rows
    /\ dt.tree_depth = 2
    /\ \A i \in 1..2 : statCount(acc.node_stats[i]) > 0
    /\ acc.node_stats = accS.node_stats

\* C2: search on any row ends at a slot inside the arrays that is
\* IN_PROCESS_LEAF or FINISHED_LEAF, after visiting internal nodes only
C2_SearchEndsAtLeaf ==
    found.status # "none" =>
        /\ found.status = "leaf"
        /\ InRange(dt.feature_indices, found.index)
        /\ IsLeafMark(At(dt.feature_indices, found.index))
        /\ \A j \in 1..Len(found.path) :
              /\ InRange(dt.feature_indices, found.path[j].node)
              /\ At(dt.feature_indices, found.path[j].node) >= 0

\* a row with a null feature walked two internal nodes of a tree of depth 3
C2_Witness ==
    /\ found.status = "leaf"
    /\ Len(found.path) = 2
    /\ dt.tree_depth = 3
    /\ isNull(found.row.cat[1], TRUE)

\* C3: the driver loop calls expand at most max(1, max_depth) times, the
\* last of them returns training_finished, and tree_depth <= max_depth + 1
C3_ExpandCallsBounded ==
    /\ n_calls <= Max(1, cfg.max_depth)
    /\ (n_calls = Max(1, cfg.max_depth) => last.training_finished)
    /\ dt.tree_depth <= cfg.max_depth + 1

\* the loop ran max_depth = 2 calls and the tree reached depth max_depth + 1
C3_Witness ==
    /\ cfg.max_depth = 2
    /\ n_calls = 2
    /\ last.training_finished
    /\ dt.tree_depth = 3

\* C4: every array has the length its tree_depth implies, and both children
\* of every node have that node as parent
C4_ArrayLengths ==
    LET n == Pow2(dt.tree_depth) - 1
    IN /\ Len(dt.feature_indices) = n
       /\ Len(dt.feature_thresholds) = n
       /\ Len(dt.is_categorical) = n
       /\ Len(dt.nonnull_split_count) = 2 * n
       /\ Len(dt.surr_indices) = n * dt.max_n_surr
       /\ Len(dt.surr_thresholds) = n * dt.max_n_surr
       /\ Len(dt.surr_status) = n * dt.max_n_surr
       /\ Len(dt.surr_agreement) = n * dt.max_n_surr
       /\ Len(dt.predictions) = n
       /\ \A i \in 0..(n - 1) :
             /\ parentIndex(trueChild(i)) = i
             /\ parentIndex(falseChild(i)) = i

\* the tree grew twice, with surrogate slots
C4_Witness ==
    /\ dt.tree_depth = 3
    /\ dt.max_n_surr = 2
    /\ last.grew

\* C5: both children of an internal node are inside the arrays and are
\* leaves or internal nodes, never NODE_NON_EXISTING
C5_InternalHasChildren ==
    \A i \in Nodes :
        At(dt.feature_indices, i) >= 0 =>
            \A c \in {trueChild(i), falseChild(i)} :
                /\ InRange(dt.feature_indices, c)
                /\ (IsLeafMark(At(dt.feature_indices, c)) \/ At(dt.feature_indices, c) >= 0)

\* an internal node with an internal child and a leaf child
C5_Witness ==
    /\ At(dt.feature_indices, 0) >= 0
    /\ \E c \in {1, 2} : InRange(dt.feature_indices, c) /\ At(dt.feature_indices, c) >= 0
    /\ \E c \in {1, 2} : InRange(dt.feature_indices, c) /\ IsLeafMark(At(dt.feature_indices, c))

RECURSIVE IsBelow(_, _)
\* slot j lies in the subtree under slot i
IsBelow(j, i) == j > i /\ (parentIndex(j) = i \/ IsBelow(parentIndex(j), i))

\* C6: under a leaf or a non-existing slot every allocated slot is
\* NODE_NON_EXISTING
C6_NothingBelowLeaf ==
    \A i \in Nodes :
        At(dt.feature_indices, i) < 0 =>
            \A j \in Nodes : IsBelow(j, i) => At(dt.feature_indices, j) = NODE_NON_EXISTING

\* a finished leaf of the second level with allocated slots under it
C6_Witness ==
    /\ dt.tree_depth = 3
    /\ \E i \in {1, 2} : At(dt.feature_indices, i) = FINISHED_LEAF
    /\ \E i \in {1, 2} : At(dt.feature_indices, i) >= 0

\* the slots of the level allocated by the last expand call
NewSlots == (Pow2(last.depth_before) - 1)..(Pow2(last.depth_before + 1) - 2)

\* C7 as stated: after an expand call that allocated a level, a new slot is
\* IN_PROCESS_LEAF if its parent was split in the call and NODE_NON_EXISTING
\* otherwise
C7_NewSlotsInProcess ==
    last.grew =>
        \A s \in NewSlots :
            At(dt.feature_indices, s) =
                IF parentIndex(s) \in last.admitted THEN IN_PROCESS_LEAF
                ELSE NODE_NON_EXISTING

\* C7 amended: a new slot whose parent was split is IN_PROCESS_LEAF when the
\* call returned false and FINISHED_LEAF when it returned true; any other
\* new slot is NODE_NON_EXISTING
C7_NewSlotsMarked ==
    last.grew =>
        /\ Len(dt.feature_indices) = Pow2(last.depth_before + 1) - 1
        /\ \A s \in NewSlots :
              At(dt.feature_indices, s) =
                  IF parentIndex(s) \in last.admitted
                  THEN (IF last.training_finished THEN FINISHED_LEAF ELSE IN_PROCESS_LEAF)
                  ELSE NODE_NON_EXISTING

\* a call that split one leaf of the second level, left the other, and
\* returned true
C7_Witness ==
    /\ pc = "expanded"
    /\ last.grew /\ last.training_finished
    /\ last.depth_before = 2
    /\ Cardinality(last.admitted) = 1

\* a side of candidate k at leaf i of the accumulator has weighted count 0
OneSided(state, i, k) ==
    LET c == Candidate(state, i, k)
        sps == state.stats_per_split
    IN \/ SumSeq(Segment(c.stats, 0, n_y_labels)) = 0
       \/ SumSeq(Segment(c.stats, sps, n_y_labels)) = 0

HasPrimaryStats == pc \in {"merged", "expanded"}

\* the statistics of the last primary pass: the merged accumulator before
\* expand consumes it, the single accumulator of the same rows after
PassStats == IF pc = "merged" THEN acc ELSE accS

\* C8: impurityGain is 0 for a candidate with an empty side, the children of
\* the nodes split by the last call both have weight, and every internal
\* node has both nonnull_split_count entries >= 1
C8_EmptySideRejected ==
    /\ HasPrimaryStats =>
          \A i \in 0..(PassStats.n_leaf_nodes - 1) : \A k \in 0..(n_candidates - 1) :
              OneSided(PassStats, i, k) =>
                  impurityGain(dt, Candidate(PassStats, i, k).stats,
                               PassStats.stats_per_split).num = 0
    /\ \A n \in last.admitted :
          /\ statWeightedCount(At(dt.predictions, trueChild(n))) > 0
          /\ statWeightedCount(At(dt.predictions, falseChild(n))) > 0
    /\ \A n \in Nodes :
          At(dt.feature_indices, n) >= 0 =>
              /\ At(dt.nonnull_split_count, 2 * n) >= 1
              /\ At(dt.nonnull_split_count, 2 * n + 1) >= 1

\* expand split the root although a candidate there had rows on one side only
C8_Witness ==
    /\ pc = "expanded"
    /\ last.admitted = {0}
    /\ \E k \in 0..(n_candidates - 1) :
          /\ OneSided(accS, 0, k)
          /\ statCount(Segment(Candidate(accS, 0, k).stats, 0, accS.stats_per_split)) > 0

\* the surrogate slots of node n that hold a surrogate
StoredSlots(n) ==
    {k \in 0..(dt.max_n_surr - 1) : At(dt.surr_indices, n * dt.max_n_surr + k) >= 0}

\* C9: every stored surrogate agrees on at least the majority count of its node
C9_SurrogateDominance ==
    \A n \in Nodes : \A k \in StoredSlots(n) :
        At(dt.surr_agreement, n * dt.max_n_surr + k) >=
            Max(At(dt.nonnull_split_count, 2 * n), At(dt.nonnull_split_count, 2 * n + 1))

\* pickSurrogates stored a surrogate that beats the majority and one that ties it
C9_Witness ==
    /\ pc = "picked"
    /\ \E n \in Nodes : \E k \in StoredSlots(n) :
          At(dt.surr_agreement, n * dt.max_n_surr + k) > getMajorityCount(dt, n)
    /\ \E n \in Nodes : \E k \in StoredSlots(n) :
          At(dt.surr_agreement, n * dt.max_n_surr + k) = getMajorityCount(dt, n)

\* the value of the feature a surrogate slot tests, in a row
SlotValue(n, k, row) ==
    LET s == n * dt.max_n_surr + k
    IN IF Abs(At(dt.surr_status, s)) = 1 THEN At(row.cat, At(dt.surr_indices, s))
       ELSE At(row.con, At(dt.surr_indices, s))

SlotIsNull(n, k, row) ==
    isNull(SlotValue(n, k, row), Abs(At(dt.surr_status, n * dt.max_n_surr + k)) = 1)

\* the stored surrogates of node n whose feature is not null in the row
Usable(n, row) == {k \in StoredSlots(n) : ~SlotIsNull(n, k, row)}

\* the branch the claim gives a row whose primary feature is null at node n
NullBranch(n, row) ==
    IF Usable(n, row) # {}
    THEN LET k == CHOOSE k1 \in Usable(n, row) : \A k2 \in Usable(n, row) : k1 <= k2
             s == n * dt.max_n_surr + k
             le == SlotValue(n, k, row) <= At(dt.surr_thresholds, s)
         IN IF At(dt.surr_status, s) < 0 THEN ~le ELSE le
    ELSE At(dt.nonnull_split_count, 2 * n) >= At(dt.nonnull_split_count, 2 * n + 1)

PrimaryIsNull(n, row) ==
    IF At(dt.is_categorical, n) # 0
    THEN isNull(At(row.cat, At(dt.feature_indices, n)), TRUE)
    ELSE isNull(At(row.con, At(dt.feature_indices, n)), FALSE)

\* two rows with nulls at the same features and equal values elsewhere
SameButNulls(r1, r2) ==
    /\ \A f \in 1..n_cat :
          \/ r1.cat[f] = r2.cat[f]
          \/ (isNull(r1.cat[f], TRUE) /\ isNull(r2.cat[f], TRUE))
    /\ r1.con = r2.con

\* C10: at a node whose primary feature is null in the row, search takes the
\* branch of the first stored surrogate that is not null in the row, or the
\* majority branch (ties to the true child) when there is none; the encoding
\* of a null does not change the leaf reached
C10_NullRouting ==
    found.status = "leaf" =>
        /\ \A j \in 1..Len(found.path) :
              PrimaryIsNull(found.path[j].node, found.row) =>
                  found.path[j].branch = NullBranch(found.path[j].node, found.row)
        /\ \A r2 \in QueryRows :
              SameButNulls(found.row, r2) => search(dt, r2).index = found.index

\* a row null at the root's feature was routed by a reverse surrogate
C10_Witness ==
    /\ found.status = "leaf"
    /\ Len(found.path) >= 1
    /\ PrimaryIsNull(0, found.row)
    /\ Usable(0, found.row) # {}
    /\ \E k \in Usable(0, found.row) :
          /\ \A k2 \in Usable(0, found.row) : k <= k2
          /\ At(dt.surr_status, k) < 0
          /\ k > 0

\* a row null at the root's feature and at every surrogate took the majority
\* branch of a tie
C10_WitnessMajority ==
    /\ found.status = "leaf"
    /\ Len(found.path) >= 1
    /\ PrimaryIsNull(0, found.row)
    /\ Usable(0, found.row) = {}
    /\ At(dt.nonnull_split_count, 0) = At(dt.nonnull_split_count, 1)

\* the three statistic matrices of an accumulator
StatsOf(a) == <<a.cat_stats, a.con_stats, a.node_stats>>

SameShape(a, b) ==
    /\ a.n_bins = b.n_bins
    /\ a.n_cat_features = b.n_cat_features
    /\ a.n_con_features = b.n_con_features

\* the element-wise sums of the matrices of two accumulators of one shape
SumStats(a, b) ==
    << [i \in 1..Len(a.cat_stats) |-> AddVec(a.cat_stats[i], b.cat_stats[i])],
       [i \in 1..Len(a.con_stats) |-> AddVec(a.con_stats[i], b.con_stats[i])],
       [i \in 1..Len(a.node_stats) |-> AddVec(a.node_stats[i], b.node_stats[i])] >>

\* C11 as stated, for two accumulators that have each counted a row: a merge
\* of accB into accA sums the matrices when the shapes are equal and neither
\* accumulator is terminated, and in every other case leaves the matrices
\* alone and the receiver terminated
C11_MergeSumsOrTerminates ==
    (hist.op = "merge" /\ ~empty(accA) /\ ~empty(accB)) =>
        IF SameShape(accA, accB) /\ ~accA.terminated /\ ~accB.terminated
        THEN StatsOf(acc) = SumStats(accA, accB)
        ELSE acc.terminated /\ StatsOf(acc) = StatsOf(accA)


\* the error of a terminated shard is lost: a healthy accumulator received a
\* terminated one that had counted a row, summed its matrices and is not
\* terminated
C11_Witness ==
    /\ hist.op = "merge"
    /\ ~empty(accA) /\ ~accA.terminated
    /\ ~empty(accB) /\ accB.terminated
    /\ SameShape(accA, accB)
    /\ ~acc.terminated
    /\ StatsOf(acc) = SumStats(accA, accB)
    /\ StatsOf(acc) # StatsOf(accA)

\* the last operation fed a row, and the accumulator it left
RowFed == hist.op \in {"rowA", "rowB", "rowM"}

AccAfter == IF hist.op = "rowA" THEN accA ELSE IF hist.op = "rowB" THEN accB ELSE acc

\* the row fails a validation of the pass on accumulator a; the surrogate
\* pass reads no response
InvalidRow(a, row) ==
    \/ pc = "primary" /\ ~isfinite(row.y)
    \/ Len(row.cat) # a.n_cat_features
    \/ Len(row.con) # a.n_con_features
    \/ Len(row.cat) + Len(row.con) > MaxFeatures

\* C12 as stated: after a row that fails validation, in the primary or the
\* surrogate pass, the accumulator is terminated
C12_InvalidRowTerminates ==
    (RowFed /\ InvalidRow(hist.before, AccRows[hist.row])) => AccAfter.terminated

\* the surrogate pass took a row with a missing categorical feature and the
\* accumulator is not terminated
C12_Witness ==
    /\ pc = "surrogate"
    /\ RowFed
    /\ Len(AccRows[hist.row].cat) # hist.before.n_cat_features
    /\ ~hist.before.terminated
    /\ ~AccAfter.terminated

\* C13: a terminated accumulator stays terminated through a primary row, a
\* surrogate row and a merge; a primary row fed to a terminated accumulator
\* changes nothing in it, and the row that terminates an accumulator adds
\* nothing to its matrices or to n_rows
C13_TerminatedIsSticky ==
    /\ (RowFed /\ hist.before.terminated) => AccAfter.terminated
    /\ (hist.op = "merge" /\ accA.terminated) => acc.terminated
    /\ (RowFed /\ pc = "primary" /\ hist.before.terminated) =>
          /\ StatsOf(AccAfter) = StatsOf(hist.before)
          /\ AccAfter.n_rows = hist.before.n_rows
    /\ (RowFed /\ pc = "primary" /\ ~hist.before.terminated /\ AccAfter.terminated) =>
          /\ StatsOf(AccAfter) = StatsOf(hist.before)
          /\ AccAfter.n_rows = hist.before.n_rows

\* a valid row was fed to an accumulator that a bad row had terminated after
\* it had counted a row
C13_Witness ==
    /\ pc = "primary"
    /\ hist.op = "rowM"
    /\ hist.before.terminated /\ hist.before.n_rows = 1
    /\ ~InvalidRow(hist.before, AccRows[hist.row])
    /\ acc = hist.before

\* the orders in which the rows fed to the first accumulator can arrive
Orders == {p \in [1..Len(feedA) -> 1..Len(feedA)] : \A i, j \in 1..Len(feedA) : p[i] = p[j] => i = j}
FedIn(p) == [k \in 1..Len(feedA) |-> AccRows[feedA[p[k]]]]
FedAcc(p) == FoldRows(PassAcc("primary", dt.tree_depth, n_bins_in), dt, FedIn(p))
ValidPrefix(p) == SubSeq(FedIn(p), 1, Cardinality({k \in 1..Len(feedA) : \A m \in 1..k : ~InvalidRow(accA, FedIn(p)[m])}))
ValidPrefixAcc(p) == FoldRows(PassAcc("primary", dt.tree_depth, n_bins_in), dt, ValidPrefix(p))
AllValid == \A k \in 1..Len(feedA) : ~InvalidRow(accA, AccRows[feedA[k]])

\* C14 as stated: after a row of the primary pass, every order of the rows fed to an
\* accumulator leaves the same cat_stats, con_stats and node_stats, whether
\* or not some of the rows fail validation
C14_AnyOrderSameStats ==
    (pc = "primary" /\ hist.op = "rowA") => \A p \in Orders : StatsOf(FedAcc(p)) = StatsOf(accA)

\* C14 amended: every order of rows that all pass validation leaves the same
\* three matrices and no error; when a row fails validation every order ends
\* terminated with the matrices of the rows before the first failing row
C14_ValidRowsCommute ==
    (pc = "primary" /\ hist.op = "rowA") =>
        \A p \in Orders :
            IF AllValid
            THEN StatsOf(FedAcc(p)) = StatsOf(accA) /\ ~FedAcc(p).terminated
            ELSE /\ FedAcc(p).terminated /\ accA.terminated
                 /\ StatsOf(FedAcc(p)) = StatsOf(ValidPrefixAcc(p))

\* two different valid rows were counted at the same leaf
C14_Witness ==
    /\ pc = "primary" /\ hist.op = "rowA"
    /\ feedA = <<1, 2>> /\ AllValid
    /\ ~accA.terminated /\ accA.n_rows = 2
    /\ \E i \in 1..Len(accA.node_stats) : SumSeq(accA.node_stats[i]) >= 4

\* level k of the tree (the root is level 1) holds no node
LevelEmpty(k) == \A i \in (Pow2(k - 1) - 1)..(Pow2(k) - 2) : At(dt.feature_indices, i) = NODE_NON_EXISTING

\* C15 as stated: recomputeTreeDepth returns d - 1 when the deepest level of
\* a tree of tree_depth d > 1 holds no node, and d otherwise
C15_DepthMinusOne ==
    ret.fn = "recomputeTreeDepth" =>
        ret.val = IF dt.tree_depth > 1 /\ LevelEmpty(dt.tree_depth)
                  THEN dt.tree_depth - 1 ELSE dt.tree_depth

\* C15 amended: for d > 1 recomputeTreeDepth returns the deepest level that
\* holds a node, which is d - 1 when only the deepest level is empty; for
\* d <= 1 it returns d
C15_DeepestLevelWithNode ==
    ret.fn = "recomputeTreeDepth" =>
        IF dt.tree_depth <= 1 THEN ret.val = dt.tree_depth
        ELSE /\ ret.val \in 1..dt.tree_depth
             /\ \A k \in 1..ret.val : ~LevelEmpty(k)
             /\ \A k \in (ret.val + 1)..dt.tree_depth : LevelEmpty(k)
             /\ (LevelEmpty(dt.tree_depth) /\ ~LevelEmpty(dt.tree_depth - 1)) => ret.val = dt.tree_depth - 1

\* the depth of a tree whose last two levels hold no node was recomputed
C15_Witness ==
    /\ ret.fn = "recomputeTreeDepth"
    /\ dt.tree_depth = 3 /\ LevelEmpty(3) /\ LevelEmpty(2) /\ ~LevelEmpty(1)
    /\ ret.val = 1

\* C16: the surrogate slots of every node are left-packed: a slot that is
\* SURR_NON_EXISTING is followed only by SURR_NON_EXISTING slots of the node
C16_SurrLeftPacked ==
    \A n \in Nodes : \A k \in 0..(dt.max_n_surr - 1) : \A k2 \in (k + 1)..(dt.max_n_surr - 1) :
        At(dt.surr_indices, n * dt.max_n_surr + k) = SURR_NON_EXISTING
            => At(dt.surr_indices, n * dt.max_n_surr + k2) = SURR_NON_EXISTING

\* pickSurrogates has filled every slot of one node and only the first slot
\* of another, in a tree that expand has grown after an earlier pickSurrogates
C16_Witness ==
    /\ pc = "picked"
    /\ dt.tree_depth = 3
    /\ \E n \in Nodes : StoredSlots(n) = 0..(dt.max_n_surr - 1)
    /\ \E n \in Nodes : StoredSlots(n) = {0}

\* the statistics of the node computeRisk was asked about
RiskStats == At(dt.predictions, 0)

\* C17 as stated: the risk of a regression node is the variance of its
\* responses, sum(w y^2) / sum(w) - (sum(w y) / sum(w))^2, and 0 when
\* sum(w) <= 0; the risk of a classification node is the sum of the class
\* weights minus the largest class weight
C17_RiskIsVariance ==
    ret.fn = "computeRisk" =>
        IF dt.is_regression
        THEN IF RiskStats[1] <= 0 THEN ret.val.num = 0
             ELSE ret.val.num * RiskStats[1] * RiskStats[1] =
                      (RiskStats[3] * RiskStats[1] - RiskStats[2] * RiskStats[2]) * ret.val.den
        ELSE ret.val.num = (RiskStats[1] + RiskStats[2] - Max(RiskStats[1], RiskStats[2])) * ret.val.den

\* the risk of a regression node of total weight 2 with responses 0 and 2
\* is 2, twice the variance of 1
C17_Witness ==
    /\ ret.fn = "computeRisk"
    /\ dt.is_regression
    /\ RiskStats = <<2, 2, 4, 2>>
    /\ ret.val.num = 2 * ret.val.den

\* pickSurrogates reaches its call of getMajorityCount at a node of the
\* layer where the call raises
PickThrows(t, state) ==
    \E i \in 0..(SurrNodes(t.tree_depth) - 1) :
        LET curr_node == SurrNodes(t.tree_depth) - 1 + i
        IN /\ At(t.feature_indices, curr_node) >= 0
           /\ t.max_n_surr > 0
           /\ MajorityThrows(t, curr_node)

\* C18: getMajorityCount and getMajoritySplit raise exactly at the nodes whose
\* feature_indices is negative; search raises for no row, and pickSurrogates
\* does not raise, on any tree the training loop builds
C18_MajorityNeverRaised ==
    /\ \A n \in Nodes : MajorityThrows(dt, n) <=> At(dt.feature_indices, n) < 0
    /\ \A row \in QueryRows : search(dt, row).status # "threw"
    /\ \A k \in 1..Len(rows) : search(dt, rows[k]).status # "threw"
    /\ (pc = "surr" /\ fed = NRows) => ~PickThrows(dt, sacc)

\* after pickSurrogates stored a surrogate, a row null at the root's feature
\* and at every surrogate of the root was routed by getMajoritySplit
C18_Witness ==
    /\ pc = "picked"
    /\ \E n \in Nodes : StoredSlots(n) # {}
    /\ found.status = "leaf"
    /\ PrimaryIsNull(0, found.row)
    /\ Usable(0, found.row) = {}
    /\ \E n \in Nodes : MajorityThrows(dt, n)

\* the leaves of the level an expand call on the merged accumulator examines
LevelLeaves == {i \in 0..(acc.n_leaf_nodes - 1) : At(dt.feature_indices, acc.n_leaf_nodes - 1 + i) = IN_PROCESS_LEAF}

\* the best candidate of a leaf passes the test of expand with the tree t
BestPasses(t, best) == ~best.neg_inf /\ best.gain.num > 0 /\ shouldSplit(t, best.max_stats, cfg.min_split, cfg.min_bucket, acc.stats_per_split, cfg.max_depth)

\* leaf i passes the test with the tree as it is when the call starts
QualifiesAtStart(i) == BestPasses(dt, scanSplits(dt, acc, i, 0, NoBest))

\* the nodes the expand call about to be made splits
AdmittedByCall == expand(dt, acc, cfg.min_split, cfg.min_bucket, cfg.max_depth).admitted

\* C19 as stated: in one expand call a leaf is admitted exactly when its own
\* statistics pass the test with min_split, min_bucket, max_depth and the
\* tree depth at the start of the call, whatever happened to the leaves
\* before it
C19_DecisionIndependent ==
    (pc = "merged" /\ ~acc.terminated) =>
        \A i \in LevelLeaves : ((acc.n_leaf_nodes - 1 + i) \in AdmittedByCall) <=> QualifiesAtStart(i)

\* two leaves of one level both pass the test when the call starts, and the
\* call splits the first and finishes the second
C19_Witness ==
    /\ pc = "merged" /\ ~acc.terminated
    /\ dt.tree_depth = 2
    /\ LevelLeaves = {0, 1}
    /\ QualifiesAtStart(0) /\ QualifiesAtStart(1)
    /\ AdmittedByCall = {1}

\* gain of candidate k of leaf i, and the first candidate of largest gain
CandGain(i, k) == impurityGain(dt, Candidate(acc, i, k).stats, acc.stats_per_split)
MaxCand(i) == CHOOSE k \in 0..(n_candidates - 1) : \A j \in 0..(n_candidates - 1) : IF j < k THEN GainGt(CandGain(i, k), CandGain(i, j)) ELSE ~GainGt(CandGain(i, j), CandGain(i, k))

\* unweighted row counts of the two sides of candidate k of leaf i
TrueRows(i, k) == statCount(Segment(Candidate(acc, i, k).stats, 0, acc.stats_per_split))
FalseRows(i, k) == statCount(Segment(Candidate(acc, i, k).stats, acc.stats_per_split, acc.stats_per_split))

\* the counts of candidate k satisfy min_bucket and min_split
CountsPass(i, k) ==
    /\ TrueRows(i, k) >= Max(1, cfg.min_bucket)
    /\ FalseRows(i, k) >= Max(1, cfg.min_bucket)
    /\ TrueRows(i, k) + FalseRows(i, k) >= cfg.min_split

\* tree_depth when leaf i is examined: one more than at the start of the call
\* once a leaf before it has been split
DepthAt(i) == IF \E j \in LevelLeaves : j < i /\ (acc.n_leaf_nodes - 1 + j) \in AdmittedByCall THEN dt.tree_depth + 1 ELSE dt.tree_depth

\* the mark of a node after the expand call about to be made
MarkAfterCall(node) == At(expand(dt, acc, cfg.min_split, cfg.min_bucket, cfg.max_depth).dt.feature_indices, node)

\* C20: expand splits an in-process leaf exactly when its first candidate of
\* largest gain has gain > 0, its unweighted row counts satisfy
\* tL >= max(1, min_bucket), tR >= max(1, min_bucket), tL + tR >= min_split,
\* and the tree's tree_depth at the moment the leaf is examined is at most
\* max_depth; every other in-process leaf becomes FINISHED_LEAF
C20_SplitIffBestPasses ==
    (pc = "merged" /\ ~acc.terminated) =>
        \A i \in LevelLeaves :
            /\ ((acc.n_leaf_nodes - 1 + i) \in AdmittedByCall) <=>
                   /\ CandGain(i, MaxCand(i)).num > 0
                   /\ CountsPass(i, MaxCand(i))
                   /\ DepthAt(i) <= cfg.max_depth
            /\ IF (acc.n_leaf_nodes - 1 + i) \in AdmittedByCall
               THEN MarkAfterCall(acc.n_leaf_nodes - 1 + i) >= 0
               ELSE MarkAfterCall(acc.n_leaf_nodes - 1 + i) = FINISHED_LEAF

\* a leaf is finished because its candidate of largest gain fails the counts,
\* although another candidate of positive gain passes them and the depth
\* allows a split
C20_Witness ==
    /\ pc = "merged" /\ ~acc.terminated
    /\ \E i \in LevelLeaves :
          /\ (acc.n_leaf_nodes - 1 + i) \notin AdmittedByCall
          /\ CandGain(i, MaxCand(i)).num > 0
          /\ ~CountsPass(i, MaxCand(i))
          /\ DepthAt(i) <= cfg.max_depth
          /\ \E k \in 0..(n_candidates - 1) : CandGain(i, k).num > 0 /\ CountsPass(i, k)

\* candidate c1 comes before c2 in the scan of expand: categorical features
\* before continuous ones, then ascending feature, then ascending level or bin
ScannedBefore(c1, c2) ==
    \/ c1.is_cat /\ ~c2.is_cat
    \/ /\ c1.is_cat = c2.is_cat
       /\ \/ c1.feat < c2.feat
          \/ c1.feat = c2.feat /\ c1.bin < c2.bin

\* the split written at a node by the expand call about to be made is candidate c
WrittenSplit(node, c) ==
    /\ MarkAfterCall(node) = c.feat
    /\ At(expand(dt, acc, cfg.min_split, cfg.min_bucket, cfg.max_depth).dt.is_categorical, node) = (IF c.is_cat THEN 1 ELSE 0)
    /\ At(expand(dt, acc, cfg.min_split, cfg.min_bucket, cfg.max_depth).dt.feature_thresholds, node) = (IF c.is_cat THEN c.bin ELSE At(At(con_splits, c.feat), c.bin))

\* candidate k of leaf i has the largest gain and no candidate scanned before
\* it has the same gain
FirstOfLargestGain(i, k) ==
    \A j \in 0..(n_candidates - 1) :
        /\ CandGain(i, j).num * CandGain(i, k).den <= CandGain(i, k).num * CandGain(i, j).den
        /\ (CandGain(i, j).num * CandGain(i, k).den = CandGain(i, k).num * CandGain(i, j).den /\ j # k)
               => ScannedBefore(Candidate(acc, i, k), Candidate(acc, i, j))

\* C21: the split expand commits at a leaf is the candidate of largest gain
\* that comes first in the scan order: categorical before continuous,
\* ascending feature index, ascending level code or bin index
C21_FirstMaxCommitted ==
    (pc = "merged" /\ ~acc.terminated) =>
        \A i \in LevelLeaves :
            (acc.n_leaf_nodes - 1 + i) \in AdmittedByCall =>
                \E k \in 0..(n_candidates - 1) :
                    /\ WrittenSplit(acc.n_leaf_nodes - 1 + i, Candidate(acc, i, k))
                    /\ FirstOfLargestGain(i, k)

\* a leaf is split whose largest gain is attained by a categorical and by a
\* continuous candidate
C21_Witness ==
    /\ pc = "merged" /\ ~acc.terminated
    /\ \E i \in LevelLeaves :
          /\ (acc.n_leaf_nodes - 1 + i) \in AdmittedByCall
          /\ \E k \in 0..(n_candidates - 1), j \in 0..(n_candidates - 1) :
                /\ FirstOfLargestGain(i, k)
                /\ Candidate(acc, i, k).is_cat /\ ~Candidate(acc, i, j).is_cat
                /\ CandGain(i, j).num * CandGain(i, k).den = CandGain(i, k).num * CandGain(i, j).den

\* the training set of scenario S2: (x, y) = (1, 1), (2, 2), (3, 3), x in units of 1/2
ScenarioS2 == \A k \in 1..3 : rows[k].con = <<2 * k>> /\ rows[k].y = k

\* C22 as stated: on scenario S2 expand splits the root at threshold 2.5 with
\* left stats (2, 3, 5, 2) and right stats (1, 3, 9, 1)
C22_SplitAtUpperBoundary ==
    (pc = "expanded" /\ Len(rows) = 3 /\ ScenarioS2) =>
        /\ At(dt.feature_indices, 0) = 0
        /\ At(dt.feature_thresholds, 0) = 5
        /\ At(dt.predictions, 1) = <<2, 3, 5, 2>>
        /\ At(dt.predictions, 2) = <<1, 3, 9, 1>>

\* C22 amended: on scenario S2 both boundaries have gain 1/2 and expand splits
\* the root at the first, threshold 1.5, with left stats (1, 1, 1, 1) and
\* right stats (2, 5, 13, 2)
C22_SplitAtLowerBoundary ==
    (pc = "expanded" /\ Len(rows) = 3 /\ ScenarioS2) =>
        /\ dt.tree_depth = 2
        /\ At(dt.feature_indices, 0) = 0 /\ At(dt.is_categorical, 0) = 0
        /\ At(dt.feature_thresholds, 0) = 3
        /\ At(dt.predictions, 0) = <<3, 6, 14, 3>>
        /\ At(dt.predictions, 1) = <<1, 1, 1, 1>>
        /\ At(dt.predictions, 2) = <<2, 5, 13, 2>>
        /\ impurityGainReg(Segment(At(acc.con_stats, 0), 0, 8)).num * 2 = impurityGainReg(Segment(At(acc.con_stats, 0), 0, 8)).den
        /\ impurityGainReg(Segment(At(acc.con_stats, 0), 8, 8)).num * 2 = impurityGainReg(Segment(At(acc.con_stats, 0), 8, 8)).den
        /\ Segment(At(acc.con_stats, 0), 8, 8) = <<2, 3, 5, 2, 1, 3, 9, 1>>

\* expand has run on the three rows of scenario S2
C22_Witness == pc = "expanded" /\ Len(rows) = 3 /\ ScenarioS2 /\ dt.tree_depth = 2 /\ acc.n_rows = 3

\* the child node is pure and holds fewer than min_split rows
ChildWontSplit(node) ==
    /\ (At(dt.predictions, node)[1] + At(dt.predictions, node)[2]
          - Max(At(dt.predictions, node)[1], At(dt.predictions, node)[2])) * 1000
         < At(dt.predictions, node)[1] + At(dt.predictions, node)[2]
    /\ At(dt.predictions, node)[3] < cfg.min_split

\* C23: expand returns training_finished exactly when it split no leaf, or
\* tree_depth is at least max_depth + 1 after it, or both children of every
\* node it split are pure and hold fewer than min_split rows; after a call
\* that returns true no node is IN_PROCESS_LEAF, and a call that returns
\* false has grown the tree by exactly one level
C23_TrainingFinished ==
    pc = "expanded" =>
        /\ last.training_finished <=>
              \/ last.admitted = {}
              \/ dt.tree_depth >= cfg.max_depth + 1
              \/ \A n \in last.admitted : ChildWontSplit(trueChild(n)) /\ ChildWontSplit(falseChild(n))
        /\ last.training_finished => \A n \in Nodes : At(dt.feature_indices, n) # IN_PROCESS_LEAF
        /\ ~last.training_finished => dt.tree_depth = last.depth_before + 1

\* expand split a leaf below the depth limit and returned true because the
\* children it made will not split
C23_Witness ==
    /\ pc = "expanded"
    /\ last.training_finished
    /\ last.admitted # {}
    /\ dt.tree_depth < cfg.max_depth + 1

\* the leaf where the search of the row just fed ends, and its mark
FedLeaf == search(dt, AccRows[hist.row]).index

FedMark == At(dt.feature_indices, FedLeaf)

\* C24: in a tree between two passes every IN_PROCESS_LEAF is in the deepest
\* allocated level; a valid primary-pass row whose search ends at an
\* IN_PROCESS_LEAF is counted at row_index = leaf index - (n_leaf_nodes - 1),
\* which lies in 0..n_leaf_nodes - 1, and a row whose search ends at a
\* FINISHED_LEAF changes none of cat_stats, con_stats and node_stats
C24_LeafRowsInWindow ==
    pc = "primary" =>
        /\ \A n \in Nodes : At(dt.feature_indices, n) = IN_PROCESS_LEAF => n >= Pow2(dt.tree_depth - 1) - 1
        /\ (RowFed /\ ~hist.before.terminated /\ ~InvalidRow(hist.before, AccRows[hist.row])) =>
              /\ FedMark = IN_PROCESS_LEAF =>
                    /\ FedLeaf - (hist.before.n_leaf_nodes - 1) \in 0..(hist.before.n_leaf_nodes - 1)
                    /\ AccAfter.node_stats = SetAt(hist.before.node_stats, FedLeaf - (hist.before.n_leaf_nodes - 1), AddVec(At(hist.before.node_stats, FedLeaf - (hist.before.n_leaf_nodes - 1)), RowStats(hist.before, AccRows[hist.row].y, AccRows[hist.row].w)))
              /\ FedMark = FINISHED_LEAF =>
                    /\ StatsOf(AccAfter) = StatsOf(hist.before)
                    /\ AccAfter.n_rows = hist.before.n_rows + 1

\* in a tree with a finished leaf above its in-process leaves, an accumulator
\* that counted a row of an in-process leaf took a row of the finished leaf
C24_Witness ==
    /\ pc = "primary"
    /\ dt.tree_depth = 3
    /\ \E n \in Nodes : At(dt.feature_indices, n) = IN_PROCESS_LEAF
    /\ RowFed
    /\ ~InvalidRow(hist.before, AccRows[hist.row])
    /\ FedMark = FINISHED_LEAF
    /\ FedLeaf < Pow2(dt.tree_depth - 1) - 1
    /\ ~hist.before.terminated
    /\ \E k \in 1..Len(hist.before.node_stats) : hist.before.node_stats[k] # Const(hist.before.stats_per_split, 0)

\* everything tree t holds about node n
NodeFields(t, n) == <<At(t.feature_indices, n), At(t.feature_thresholds, n), At(t.is_categorical, n), Segment(t.nonnull_split_count, 2 * n, 2), Segment(t.surr_indices, n * t.max_n_surr, t.max_n_surr), Segment(t.surr_thresholds, n * t.max_n_surr, t.max_n_surr), Segment(t.surr_status, n * t.max_n_surr, t.max_n_surr), Segment(t.surr_agreement, n * t.max_n_surr, t.max_n_surr), At(t.predictions, n)>>

\* what an untouched new slot holds
FreshFields(t) == <<NODE_NON_EXISTING, 0, 0, <<0, 0>>, Const(t.max_n_surr, SURR_NON_EXISTING), Const(t.max_n_surr, 0), Const(t.max_n_surr, 0), Const(t.max_n_surr, 0), ZeroRow>>

\* the tree the expand call about to run returns
TreeAfterCall == expand(dt, acc, cfg.min_split, cfg.min_bucket, cfg.max_depth).dt

RECURSIVE SumOver(_)
\* the sum of the stats vectors of the training rows with index in K
SumOver(K) == IF K = {} THEN Const(accS.stats_per_split, 0) ELSE LET k == CHOOSE m \in K : TRUE IN AddVec(RowStats(accS, rows[k].y, rows[k].w), SumOver(K \ {k}))

\* the rows fed so far that the search routes to leaf i of the deepest level
RoutedTo(i) == {k \in 1..fed : search(dt, rows[k]).index = accS.n_leaf_nodes - 1 + i}

\* the value a row has for the feature of candidate c
CandValue(row, c) == IF c.is_cat THEN At(row.cat, c.feat) ELSE At(row.con, c.feat)

\* the rows of leaf i whose value for the feature of candidate c is not null
NonNullIn(i, c) == {k \in RoutedTo(i) : ~isNull(CandValue(rows[k], c), c.is_cat)}

\* the rows of leaf i on the left side of candidate c
LeftIn(i, c) == {k \in NonNullIn(i, c) : IF c.is_cat THEN CandValue(rows[k], c) <= c.bin ELSE Leq(CandValue(rows[k], c), At(At(con_splits, c.feat), c.bin))}

VecLeq(u, v) == \A k \in 1..Len(u) : u[k] <= v[k]

\* C26: during a primary pass, for every in-process leaf and every candidate,
\* the left side holds the sum of the stats vectors of the leaf's rows with
\* a non-null value at or below the level or boundary, the right side the
\* sum of those above it, rows with a null value are on neither side, and
\* left + right never exceeds node_stats of the leaf
C26_CandidateSidesPartition ==
    pc = "scan" =>
        \A i \in 0..(accS.n_leaf_nodes - 1) : At(dt.feature_indices, accS.n_leaf_nodes - 1 + i) = IN_PROCESS_LEAF =>
            /\ At(accS.node_stats, i) = SumOver(RoutedTo(i))
            /\ \A k \in 0..(n_candidates - 1) :
                  /\ Segment(Candidate(accS, i, k).stats, 0, accS.stats_per_split) = SumOver(LeftIn(i, Candidate(accS, i, k)))
                  /\ Segment(Candidate(accS, i, k).stats, accS.stats_per_split, accS.stats_per_split) = SumOver(NonNullIn(i, Candidate(accS, i, k)) \ LeftIn(i, Candidate(accS, i, k)))
                  /\ VecLeq(AddVec(Segment(Candidate(accS, i, k).stats, 0, accS.stats_per_split), Segment(Candidate(accS, i, k).stats, accS.stats_per_split, accS.stats_per_split)), At(accS.node_stats, i))

\* a leaf of the second level has a row with a null value and, for one
\* candidate, rows on both sides
C26_Witness ==
    /\ pc = "scan"
    /\ dt.tree_depth = 2
    /\ \E i \in 0..1 : \E k \in 0..(n_candidates - 1) :
          /\ At(dt.feature_indices, 1 + i) = IN_PROCESS_LEAF
          /\ NonNullIn(i, Candidate(accS, i, k)) # RoutedTo(i)
          /\ LeftIn(i, Candidate(accS, i, k)) # {}
          /\ NonNullIn(i, Candidate(accS, i, k)) \ LeftIn(i, Candidate(accS, i, k)) # {}

\* the parent of the leaf where the search of the row just fed ends
FedParent == parentIndex(FedLeaf)

\* the value the row just fed has for the primary split feature of node n
PrimaryValue(n) == IF At(dt.is_categorical, n) # 0 THEN At(AccRows[hist.row].cat, At(dt.feature_indices, n)) ELSE At(AccRows[hist.row].con, At(dt.feature_indices, n))

\* the row just fed counts in the surrogate pass: its leaf's parent is a split
\* node of the layer the accumulator covers and its primary value is not null
Contributes ==
    /\ FedParent >= hist.before.n_leaf_nodes - 1
    /\ At(dt.feature_indices, FedParent) >= 0
    /\ ~isNull(PrimaryValue(FedParent), At(dt.is_categorical, FedParent) # 0)

\* candidate c splits on the primary feature of node n
IsPrimaryOf(c, n) == c.is_cat = (At(dt.is_categorical, n) # 0) /\ c.feat = At(dt.feature_indices, n)

\* the row just fed goes to the true side of candidate c
CandTrue(c) == IF c.is_cat THEN CandValue(AccRows[hist.row], c) <= c.bin ELSE Leq(CandValue(AccRows[hist.row], c), At(At(con_splits, c.feat), c.bin))

\* the one of the 4 cells of candidate c that the row just fed belongs to
AgreeCell(c) == (IF CandTrue(c) THEN 0 ELSE 2) + (IF CandTrue(c) = Leq(PrimaryValue(FedParent), At(dt.feature_thresholds, FedParent)) THEN 0 ELSE 1)

\* C27: a row of the surrogate pass changes the statistics only if its leaf's
\* parent is a split node of the layer being trained and its primary value is
\* not null; it then adds dup_count to exactly one of the 4 cells of every
\* candidate of that node on another feature for which its value is not
\* null, cell 0 or 2 when the candidate's decision equals the primary
\* decision and cell 1 or 3 when it differs, and to no other cell; the cells
\* of a node's primary feature are always 0
C27_SurrogateCells ==
    (pc = "surrogate" /\ RowFed /\ hist.before.n_bins = n_bins_in /\ ~InvalidRow(hist.before, AccRows[hist.row])) =>
        /\ ~Contributes => StatsOf(AccAfter) = StatsOf(hist.before)
        /\ AccAfter.node_stats = hist.before.node_stats
        /\ \A i \in 0..(hist.before.n_leaf_nodes - 1), k \in 0..(n_candidates - 1) :
              /\ IsPrimaryOf(Candidate(AccAfter, i, k), hist.before.n_leaf_nodes - 1 + i) => Candidate(AccAfter, i, k).stats = <<0, 0, 0, 0>>
              /\ Contributes =>
                    Candidate(AccAfter, i, k).stats =
                        IF \/ i # FedParent - (hist.before.n_leaf_nodes - 1)
                           \/ IsPrimaryOf(Candidate(AccAfter, i, k), FedParent)
                           \/ isNull(CandValue(AccRows[hist.row], Candidate(AccAfter, i, k)), Candidate(AccAfter, i, k).is_cat)
                        THEN Candidate(hist.before, i, k).stats
                        ELSE [m \in 1..4 |-> Candidate(hist.before, i, k).stats[m] + (IF m = AgreeCell(Candidate(AccAfter, i, k)) + 1 THEN hist.dup ELSE 0)]

\* in the three-level tree an accumulator that has counted a row takes a row
\* with dup_count 2 that agrees with the primary split on one candidate and
\* disagrees on another
C27_Witness ==
    /\ pc = "surrogate"
    /\ dt.tree_depth = 3
    /\ RowFed
    /\ hist.before.n_bins = n_bins_in
    /\ ~InvalidRow(hist.before, AccRows[hist.row])
    /\ hist.dup = 2
    /\ hist.before.n_rows > 0
    /\ Contributes
    /\ \E k1, k2 \in 0..(n_candidates - 1) :
          /\ AgreeCell(Candidate(AccAfter, 1, k1)) \in {0, 2}
          /\ AgreeCell(Candidate(AccAfter, 1, k2)) \in {1, 3}
          /\ Candidate(AccAfter, 1, k1).stats # Candidate(hist.before, 1, k1).stats
          /\ Candidate(AccAfter, 1, k2).stats # Candidate(hist.before, 1, k2).stats

\* the trees a pickSurrogates call on the statistics gathered can leave,
\* one for every outcome of argsort
PickOutcomes ==
    LET Perms == {p \in [1..(n_cat + n_con) -> 0..(n_cat + n_con - 1)] : \A k \in 0..(n_cat + n_con - 1) : \E j \in 1..(n_cat + n_con) : p[j] = k}
    IN {pickSurrogates(dt, sacc, order) : order \in {o \in [1..SurrNodes(dt.tree_depth) -> Perms] : \A i \in 0..(SurrNodes(dt.tree_depth) - 1) : IsArgsort(At(o, i), BestPerFeature(sacc, i))}}

\* the split nodes of the last completed layer, by their row of statistics
SurrLayer == {i \in 0..(SurrNodes(dt.tree_depth) - 1) : At(dt.feature_indices, SurrNodes(dt.tree_depth) - 1 + i) >= 0}

\* the features by type and type-local index
Features == {[is_cat |-> TRUE, feat |-> f] : f \in 0..(n_cat - 1)} \cup {[is_cat |-> FALSE, feat |-> f] : f \in 0..(n_con - 1)}

\* the best agreement count of feature g at row i of the layer, over its
\* thresholds and over the forward and the reverse direction
BestAgreement(i, g) ==
    LET counts == UNION {{Candidate(sacc, i, k).stats[1] + Candidate(sacc, i, k).stats[3], Candidate(sacc, i, k).stats[2] + Candidate(sacc, i, k).stats[4]} : k \in {c \in 0..(n_candidates - 1) : Candidate(sacc, i, c).is_cat = g.is_cat /\ Candidate(sacc, i, c).feat = g.feat}}
    IN CHOOSE c \in counts : \A d \in counts : d <= c

\* the features other than the primary of the node of row i that agree on
\* at least the majority count
Qualifying(i) == {g \in Features : ~IsPrimaryOf(g, SurrNodes(dt.tree_depth) - 1 + i) /\ BestAgreement(i, g) >= getMajorityCount(dt, SurrNodes(dt.tree_depth) - 1 + i)}

\* the slots of node n that hold a surrogate in tree t
StoredIn(t, n) == {k \in 0..(t.max_n_surr - 1) : At(t.surr_indices, n * t.max_n_surr + k) >= 0}

\* C28: when the surrogate pass over the training rows is complete, every
\* outcome of pickSurrogates stores, for each split node of the last
\* completed layer, exactly min(max_n_surr, q) surrogates, q the number of
\* features other than the primary whose best agreement is at least the
\* majority count of the node
C28_SurrogateCount ==
    (pc = "surr" /\ fed = NRows) =>
        \A t \in PickOutcomes : \A i \in SurrLayer :
            Cardinality(StoredIn(t, SurrNodes(dt.tree_depth) - 1 + i)) = (IF Cardinality(Qualifying(i)) < dt.max_n_surr THEN Cardinality(Qualifying(i)) ELSE dt.max_n_surr)

\* two features qualify at a node that keeps one surrogate
C28_Witness ==
    /\ pc = "surr" /\ fed = NRows
    /\ dt.max_n_surr = 1
    /\ \E i \in SurrLayer : Cardinality(Qualifying(i)) = 2
    /\ \E t \in PickOutcomes : \E i \in SurrLayer : Cardinality(StoredIn(t, SurrNodes(dt.tree_depth) - 1 + i)) = 1

\* the feature the surrogate in slot k of node n of tree t tests
SlotFeature(t, n, k) == [is_cat |-> Abs(At(t.surr_status, n * t.max_n_surr + k)) = 1, feat |-> At(t.surr_indices, n * t.max_n_surr + k)]

\* the stored surrogates of node n of tree t are well formed: none is the
\* primary split feature, no feature is stored twice, the agreement does not
\* increase from slot to slot, and the status names the feature's type
SurrogatesWellFormed(t, n) ==
    \A k \in StoredIn(t, n) :
        /\ At(t.surr_status, n * t.max_n_surr + k) \in {-2, -1, 1, 2}
        /\ SlotFeature(t, n, k) \in Features
        /\ ~(SlotFeature(t, n, k).is_cat = (At(t.is_categorical, n) # 0) /\ SlotFeature(t, n, k).feat = At(t.feature_indices, n))
        /\ \A k2 \in StoredIn(t, n) :
              /\ k2 # k => SlotFeature(t, n, k2) # SlotFeature(t, n, k)
              /\ k2 > k => At(t.surr_agreement, n * t.max_n_surr + k2) <= At(t.surr_agreement, n * t.max_n_surr + k)

\* the 4 cells of the candidate of row i that the surrogate in slot k of
\* node n of tree t stores, found by feature and threshold
SlotCells(t, i, n, k) ==
    LET g == SlotFeature(t, n, k)
        thr == At(t.surr_thresholds, n * t.max_n_surr + k)
        c == CHOOSE c \in 0..(n_candidates - 1) :
                /\ Candidate(sacc, i, c).is_cat = g.is_cat
                /\ Candidate(sacc, i, c).feat = g.feat
                /\ thr = (IF g.is_cat THEN Candidate(sacc, i, c).bin ELSE At(At(con_splits, g.feat), Candidate(sacc, i, c).bin))
    IN Candidate(sacc, i, c).stats

\* C29: the stored surrogates of every node exclude the node's primary split
\* feature, hold each feature at most once, are in non-increasing order of
\* surr_agreement and have surr_status in {-2, -1, 1, 2}, 1 for a
\* categorical and 2 for a continuous feature; the status is negative
\* exactly when the stored agreement is the reverse count of the stored
\* split
C29_SurrogatesWellFormed ==
    /\ \A n \in Nodes : SurrogatesWellFormed(dt, n)
    /\ (pc = "surr" /\ fed = NRows) =>
          \A t \in PickOutcomes : \A i \in SurrLayer : \A k \in StoredIn(t, SurrNodes(dt.tree_depth) - 1 + i) :
              /\ SurrogatesWellFormed(t, SurrNodes(dt.tree_depth) - 1 + i)
              /\ At(t.surr_agreement, (SurrNodes(dt.tree_depth) - 1 + i) * t.max_n_surr + k) = BestAgreement(i, SlotFeature(t, SurrNodes(dt.tree_depth) - 1 + i, k))
              /\ At(t.surr_status, (SurrNodes(dt.tree_depth) - 1 + i) * t.max_n_surr + k) > 0 =>
                    At(t.surr_agreement, (SurrNodes(dt.tree_depth) - 1 + i) * t.max_n_surr + k) = SlotCells(t, i, SurrNodes(dt.tree_depth) - 1 + i, k)[1] + SlotCells(t, i, SurrNodes(dt.tree_depth) - 1 + i, k)[3]
              /\ At(t.surr_status, (SurrNodes(dt.tree_depth) - 1 + i) * t.max_n_surr + k) < 0 =>
                    /\ At(t.surr_agreement, (SurrNodes(dt.tree_depth) - 1 + i) * t.max_n_surr + k) = SlotCells(t, i, SurrNodes(dt.tree_depth) - 1 + i, k)[2] + SlotCells(t, i, SurrNodes(dt.tree_depth) - 1 + i, k)[4]
                    /\ SlotCells(t, i, SurrNodes(dt.tree_depth) - 1 + i, k)[1] + SlotCells(t, i, SurrNodes(dt.tree_depth) - 1 + i, k)[3] < At(t.surr_agreement, (SurrNodes(dt.tree_depth) - 1 + i) * t.max_n_surr + k)

\* pickSurrogates has stored, at one node, a categorical and a continuous
\* surrogate, one of them a reverse split, the second of lower agreement
C29_Witness ==
    /\ pc = "picked"
    /\ dt.max_n_surr = 2
    /\ \E n \in Nodes :
          /\ StoredSlots(n) = {0, 1}
          /\ At(dt.surr_agreement, 2 * n) > At(dt.surr_agreement, 2 * n + 1)
          /\ Abs(At(dt.surr_status, 2 * n)) # Abs(At(dt.surr_status, 2 * n + 1))
          /\ (At(dt.surr_status, 2 * n) < 0 \/ At(dt.surr_status, 2 * n + 1) < 0)

\* what expand_by_sampling returns for the call about to be made, for one
\* number of sampled features and one outcome of the shuffles
SampledOutcome(n, sh) == expand_by_sampling(dt, acc, cfg.min_split, cfg.min_bucket, cfg.max_depth, n, sh)

\* the position in the combined feature list of the split feature of a node
SplitFeature(t, node) == IF At(t.is_categorical, node) # 0 THEN At(t.feature_indices, node) ELSE n_cat + At(t.feature_indices, node)

\* the split of a node of tree t is candidate c
IsSplitOf(t, node, c) ==
    /\ At(t.feature_indices, node) = c.feat
    /\ At(t.is_categorical, node) = (IF c.is_cat THEN 1 ELSE 0)
    /\ At(t.feature_thresholds, node) = (IF c.is_cat THEN c.bin ELSE At(At(con_splits, c.feat), c.bin))

\* the gain of candidate k of leaf i is the largest among the candidates of
\* the features in F (positions in the combined list)
LargestIn(i, k, F) ==
    \A j \in 0..(n_candidates - 1) :
        (IF Candidate(acc, i, j).is_cat THEN Candidate(acc, i, j).feat ELSE n_cat + Candidate(acc, i, j).feat) \in F
            => CandGain(i, j).num * CandGain(i, k).den <= CandGain(i, k).num * CandGain(i, j).den

\* the splits of the outcome r of a call of expand_by_sampling with n
\* sampled features and shuffles sh are well formed: each split feature is
\* one of the first n of the leaf's shuffled list, the index written is the
\* position within the features of its type, and the split has the largest
\* gain among the candidates of the sampled features
SplitsOk(r, n, sh) ==
    \A i \in LevelLeaves : (acc.n_leaf_nodes - 1 + i) \in r.admitted =>
        /\ SplitFeature(r.dt, acc.n_leaf_nodes - 1 + i) \in {sh[i + 1][j] : j \in 1..n}
        /\ At(r.dt.feature_indices, acc.n_leaf_nodes - 1 + i) \in (IF At(r.dt.is_categorical, acc.n_leaf_nodes - 1 + i) # 0 THEN 0..(n_cat - 1) ELSE 0..(n_con - 1))
        /\ \E k \in 0..(n_candidates - 1) :
              /\ IsSplitOf(r.dt, acc.n_leaf_nodes - 1 + i, Candidate(acc, i, k))
              /\ LargestIn(i, k, {sh[i + 1][j] : j \in 1..n})

SampledSplitsOk(n, sh) == SplitsOk(SampledOutcome(n, sh), n, sh)

\* the outcome r of a call with every feature sampled splits the leaves that
\* the outcome e of expand splits
SameLeaves(r, e) == r.admitted = e.admitted

SameAsExpand(sh) == SameLeaves(SampledOutcome(n_cat + n_con, sh), expand(dt, acc, cfg.min_split, cfg.min_bucket, cfg.max_depth))

\* C30 as stated: for every number of sampled features up to n_cat + n_con
\* and every outcome of the shuffles, a split committed by expand_by_sampling
\* is on one of the first n_random_features features of the leaf's shuffled
\* list and the index written is the position within the features of its
\* type; with all features sampled it commits, at the leaves where expand
\* commits, a split of the same largest gain
C30_SampledSplit ==
    (pc = "merged" /\ ~acc.terminated) =>
        \A sh \in [1..acc.n_leaf_nodes -> Shuffles] :
            /\ \A n \in 0..(n_cat + n_con) : SampledSplitsOk(n, sh)
            /\ SameAsExpand(sh)

\* a leaf split in the outcome r of a call with every feature sampled and in
\* the outcome e of expand is split by both on candidates of one gain
SameGain(r, e) ==
    \A i \in LevelLeaves : (acc.n_leaf_nodes - 1 + i) \in (r.admitted \cap e.admitted) =>
        \E k \in 0..(n_candidates - 1), k2 \in 0..(n_candidates - 1) :
            /\ IsSplitOf(r.dt, acc.n_leaf_nodes - 1 + i, Candidate(acc, i, k))
            /\ IsSplitOf(e.dt, acc.n_leaf_nodes - 1 + i, Candidate(acc, i, k2))
            /\ CandGain(i, k).num * CandGain(i, k2).den = CandGain(i, k2).num * CandGain(i, k).den

SameGainWhereBoth(sh) == SameGain(SampledOutcome(n_cat + n_con, sh), expand(dt, acc, cfg.min_split, cfg.min_bucket, cfg.max_depth))

\* C30 amended: a split committed by expand_by_sampling is on one of the
\* first n_random_features features of the leaf's shuffled list, has the
\* largest gain among the candidates of those features and is written with
\* the index within the features of its type; with all features sampled, a
\* leaf that both variants split is split on candidates of the same largest
\* gain
C30_SampledSplitOfLargestGain ==
    (pc = "merged" /\ ~acc.terminated) =>
        \A sh \in [1..acc.n_leaf_nodes -> Shuffles] :
            /\ \A n \in 0..(n_cat + n_con) : SampledSplitsOk(n, sh)
            /\ SameGainWhereBoth(sh)

\* a leaf that expand leaves unsplit is split by expand_by_sampling with
\* every feature sampled, and with one feature sampled it is split on the
\* continuous feature, written as index 0
C30_Witness ==
    /\ pc = "merged" /\ ~acc.terminated
    /\ \E sh \in [1..acc.n_leaf_nodes -> Shuffles] : \E i \in LevelLeaves :
          /\ (acc.n_leaf_nodes - 1 + i) \in SampledOutcome(n_cat + n_con, sh).admitted
          /\ (acc.n_leaf_nodes - 1 + i) \notin AdmittedByCall
    /\ \E sh \in [1..acc.n_leaf_nodes -> Shuffles] : \E i \in LevelLeaves :
          /\ (acc.n_leaf_nodes - 1 + i) \in SampledOutcome(1, sh).admitted
          /\ SplitFeature(SampledOutcome(1, sh).dt, acc.n_leaf_nodes - 1 + i) = n_cat
          /\ At(SampledOutcome(1, sh).dt.feature_indices, acc.n_leaf_nodes - 1 + i) = 0

====
